---- MODULE Spec2Model ----
(***************************************************************************)
(* Query compilation and authorization scoping of the peregrine GraphQL    *)
(* submission API (peregrine/resources/submission/graphql/{util,node}.py). *)
(*                                                                         *)
(* A query is modelled by the list of rows of its entity that the SQL      *)
(* statement selects (a row appears once per joined row), an ORDER BY      *)
(* list, and LIMIT/OFFSET.  Without ORDER BY the rows come in the order    *)
(* the tables store them, which is part of the state and arbitrary.        *)
(* Executing a query (Query.all) sorts by the ORDER BY list, cuts by       *)
(* OFFSET/LIMIT and then keeps the first occurrence of each entity, as the *)
(* ORM does for single-entity queries.                                     *)
(***************************************************************************)
EXTENDS Integers, Sequences, FiniteSets, TLC

VARIABLES
    nodes,                    \* rows of the node tables (capp.db.nodes), in storage order
    edges,                    \* rows of the edge tables (capp.db.edges)
    read_access_permissions,  \* flask.g.read_access_permissions: scope key -> set of subjects
    node_authz_entity,        \* capp.node_authz_entity (None when not configured)
    case_cache,               \* constants.case_cache_enabled()
    fields_left,              \* fields of the request document not yet resolved
    placeholders,             \* NodeCounter._project_ids: scope key -> placeholder name
    queries,                  \* NodeCounter._queries: <<key, promise, scalar subquery>>
    promises,                 \* the Promise of each pooled count, by position in the pool
    statements,               \* the statements NodeCounter.run executed on the session
    runs,                     \* calls of NodeCounter.run so far
    call,                     \* the resolver call that produced the result
    status,                   \* "idle", "ok", or "error" when the resolver raised
    result,                   \* the rows the resolver returned (or counted), as node ids;
                              \* for get_loaded_columns the set of column names
    count                     \* the scalar a count resolver returned: <<>> (None) or <<n>>

vars == <<nodes, edges, read_access_permissions, node_authz_entity, case_cache, fields_left,
          placeholders, queries, promises, statements, runs, call, status, result, count>>

-----------------------------------------------------------------------------
(* Strings.  Python str and SQL text are TLA+ strings; TLC evaluates Len,   *)
(* \o and SubSeq on them.                                                   *)

Char(s, i) == SubSeq(s, i, i)

Uppercase == "ABCDEFGHIJKLMNOPQRSTUVWXYZ"
Lowercase == "abcdefghijklmnopqrstuvwxyz"
\* collation used for ORDER BY and for comparing strings
Collation == " !\"%*,-0123456789ABCDEFGHIJKLMNOPQRSTUVWXYZ[]_abcdefghijklmnopqrstuvwxyz"

CharIndex(alphabet, c) ==
    IF \E i \in 1..Len(alphabet) : Char(alphabet, i) = c
    THEN CHOOSE i \in 1..Len(alphabet) : Char(alphabet, i) = c
    ELSE 0

LowerChar(c) ==
    IF CharIndex(Uppercase, c) > 0 THEN Char(Lowercase, CharIndex(Uppercase, c)) ELSE c

RECURSIVE StrLower(_)
StrLower(s) ==
    IF Len(s) = 0 THEN "" ELSE LowerChar(Char(s, 1)) \o StrLower(SubSeq(s, 2, Len(s)))

\* s contains sub as a substring (SQL contains without wildcards in sub)
StrContains(s, sub) ==
    \E i \in 0..(Len(s) - Len(sub)) : SubSeq(s, i + 1, i + Len(sub)) = sub

RECURSIVE StrLess(_, _)
StrLess(a, b) ==
    IF Len(b) = 0 THEN FALSE
    ELSE IF Len(a) = 0 THEN TRUE
    ELSE LET ca == CharIndex(Collation, Char(a, 1))
             cb == CharIndex(Collation, Char(b, 1))
         IN  IF ca # cb THEN ca < cb
             ELSE StrLess(SubSeq(a, 2, Len(a)), SubSeq(b, 2, Len(b)))

\* SQL LIKE: % matches any run of characters, _ matches one character
RECURSIVE SqlLike(_, _)
SqlLike(s, p) ==
    IF Len(p) = 0 THEN Len(s) = 0
    ELSE LET c    == Char(p, 1)
             rest == SubSeq(p, 2, Len(p))
         IN  IF c = "%"
             THEN \E i \in 0..Len(s) : SqlLike(SubSeq(s, i + 1, Len(s)), rest)
             ELSE /\ Len(s) > 0
                  /\ (c = "_" \/ c = Char(s, 1))
                  /\ SqlLike(SubSeq(s, 2, Len(s)), rest)

\* str.split("-", 1)
SplitFirstHyphen(s) ==
    IF \E i \in 1..Len(s) : Char(s, i) = "-"
    THEN LET i == CHOOSE k \in 1..Len(s) :
                      /\ Char(s, k) = "-"
                      /\ \A j \in 1..(k - 1) : Char(s, j) # "-"
         IN  <<SubSeq(s, 1, i - 1), SubSeq(s, i + 1, Len(s))>>
    ELSE <<s>>

-----------------------------------------------------------------------------
(* The schema graph: node types, their properties and outgoing links.      *)

None == "None"
NodeLabel == "node"           \* psqlgraph.Node, the generic supertype
ProgramLabel == "program"     \* models.Program
ProjectLabel == "project"     \* models.Project
SubjectEntity == "person"     \* capp.subject_entity
AuthzLeaf == "subject"        \* capp.node_authz_entity when configured

CaseLabel == "case"           \* the type the case cache relates rows to

ConcreteLabels ==
    {ProgramLabel, ProjectLabel, SubjectEntity, AuthzLeaf, CaseLabel, "lab",
     "core_metadata_collection"}

\* cls.__pg_properties__: property name -> value kind
PgProperties(cls) ==
    CASE cls = ProgramLabel  -> [name |-> "str"]
      [] cls = ProjectLabel  -> [code |-> "str", state |-> "str"]
      [] cls = SubjectEntity -> [project_id |-> "str", submitter_id |-> "str"]
      [] cls = AuthzLeaf     -> [project_id |-> "str", submitter_id |-> "str"]
      [] cls = CaseLabel     -> [project_id |-> "str", submitter_id |-> "str"]
      [] cls = "lab"         -> [project_id |-> "str", submitter_id |-> "str",
                                 state |-> "str", consent_codes |-> "list",
                                 fasting |-> "bool"]
      [] cls = "core_metadata_collection"
                             -> [project_id |-> "str", submitter_id |-> "str"]
      [] OTHER               -> <<>>

\* cls._pg_links in dictionary order: <<link name, dst_type, backref>>
PgLinks(cls) ==
    CASE cls = ProjectLabel  -> << [name |-> "programs", dst_type |-> ProgramLabel, backref |-> "projects"] >>
      [] cls = SubjectEntity -> << [name |-> "projects", dst_type |-> ProjectLabel, backref |-> "persons"] >>
      [] cls = AuthzLeaf     -> << [name |-> "persons", dst_type |-> SubjectEntity, backref |-> "subjects"],
                                   [name |-> "projects", dst_type |-> ProjectLabel, backref |-> "subjects"] >>
      [] cls = CaseLabel     -> << [name |-> "projects", dst_type |-> ProjectLabel, backref |-> "cases"] >>
      [] cls = "lab"         -> << [name |-> "subjects", dst_type |-> AuthzLeaf, backref |-> "labs"] >>
      [] cls = "core_metadata_collection"
                             -> << [name |-> "projects", dst_type |-> ProjectLabel, backref |-> "core_metadata_collections"] >>
      [] OTHER               -> <<>>

LinkNames(cls) == {PgLinks(cls)[i].name : i \in 1..Len(PgLinks(cls))}
LinkOf(cls, name) == PgLinks(cls)[CHOOSE i \in 1..Len(PgLinks(cls)) : PgLinks(cls)[i].name = name]

\* hasattr(cls, "project_id")
HasProjectId(cls) == "project_id" \in DOMAIN PgProperties(cls)

\* the types with a shortcut edge to their cases: hasattr(cls, "_related_cases"),
\* and on the case type hasattr(Case, "_related_<label>")
RelatedCases == "_related_cases"
HasRelatedCases(cls) == cls \in {"lab"}
HasRelatedFromCase(dst_type) == dst_type \in {"lab"}

-----------------------------------------------------------------------------
(* Rows and SQL values.  A text column value is <<>> (NULL) or <<text>>.   *)

SqlNull == <<>>

RECURSIVE JsonItems(_)
JsonItems(list) ==
    IF Len(list) = 0 THEN ""
    ELSE "\"" \o Head(list) \o "\"" \o
         (IF Len(list) = 1 THEN "" ELSE ", " \o JsonItems(Tail(list)))

\* n._props[key].astext: the JSONB ->> operator
AsText(n, key) ==
    IF key \notin DOMAIN n.props THEN SqlNull
    ELSE LET v    == n.props[key]
             kind == IF key \in DOMAIN PgProperties(n.label)
                     THEN PgProperties(n.label)[key] ELSE "str"
         IN  CASE kind = "bool" -> << IF v THEN "true" ELSE "false" >>
               [] kind = "list" -> << "[" \o JsonItems(v) \o "]" >>
               [] OTHER         -> << v >>

\* text IN (values): TRUE only for a non-NULL text that is one of the values
TextIn(t, values) == t # SqlNull /\ t[1] \in values
\* NOT (text IN (values)): NULL IN (...) is NULL, and a row is kept only on TRUE
NotTextIn(t, values) == t # SqlNull /\ t[1] \notin values

NodeSet == {nodes[i] : i \in 1..Len(nodes)}

\* neighbours along an outgoing link / along a backref
LinkTargets(n, link) ==
    {m \in NodeSet : [src |-> n.node_id, dst |-> m.node_id, label |-> link] \in edges}
BackrefSources(n, backref) ==
    {m \in NodeSet : \E i \in 1..Len(PgLinks(m.label)) :
        /\ PgLinks(m.label)[i].backref = backref
        /\ PgLinks(m.label)[i].dst_type = n.label
        /\ [src |-> m.node_id, dst |-> n.node_id, label |-> PgLinks(m.label)[i].name] \in edges}

-----------------------------------------------------------------------------
(* Row lists: the rows a statement selects, in the order it yields them.   *)

SeqToSet(s) == {s[i] : i \in 1..Len(s)}

SeqFilter(s, Keep(_)) == SelectSeq(s, Keep)

RECURSIVE Repeat(_, _)
Repeat(x, k) == IF k <= 0 THEN <<>> ELSE <<x>> \o Repeat(x, k - 1)

RECURSIVE ExpandBy(_, _)
ExpandBy(s, counts) ==
    IF s = <<>> THEN <<>>
    ELSE Repeat(Head(s), Head(counts)) \o ExpandBy(Tail(s), Tail(counts))

\* every row repeated Count(row) times: the rows of a join
SeqExpand(s, Count(_)) == ExpandBy(s, [i \in 1..Len(s) |-> Count(s[i])])

RECURSIVE Unique(_)
\* the first occurrence of every row
Unique(s) ==
    IF s = <<>> THEN <<>>
    ELSE LET front == Unique(SubSeq(s, 1, Len(s) - 1))
         IN  IF s[Len(s)] \in SeqToSet(front) THEN front ELSE Append(front, s[Len(s)])

\* a UNION b: the distinct rows of both
SeqUnion(a, b) == Unique(a \o b)
\* a EXCEPT b: the distinct rows of a that are no row of b
SeqExcept(a, b) == LET Keep(r) == r \notin SeqToSet(b) IN Unique(SeqFilter(a, Keep))

-----------------------------------------------------------------------------
(* Queries.  entity is q.entity() at the base join point, rows the bag of  *)
(* entity rows the statement selects, order the ORDER BY list, limit and    *)
(* offset the LIMIT/OFFSET clauses (None when absent), raised whether       *)
(* building the query raised an exception.                                  *)

Query(cls, rows) ==
    [entity |-> cls, rows |-> rows, order |-> <<>>, limit |-> <<>>, offset |-> <<>>,
     raised |-> FALSE]
RaisedQuery(cls) ==
    [entity |-> cls, rows |-> <<>>, order |-> <<>>, limit |-> <<>>, offset |-> <<>>,
     raised |-> TRUE]

\* q.filter(predicate) for a predicate on the entity's own columns
QFilter(q, Keep(_)) == [q EXCEPT !.rows = SeqFilter(q.rows, Keep)]
\* q.filter(sa.sql.false())
QFalse(q) == [q EXCEPT !.rows = <<>>]

\* capp.db.nodes(cls)
DbNodes(cls) ==
    LET Keep(n) == cls = NodeLabel \/ n.label = cls
    IN  Query(cls, SeqFilter(nodes, Keep))

-----------------------------------------------------------------------------
(* filter_project_project_id                                                *)

\* q.props(code=project_code).path("programs").props(name=program_name):
\* one joined row per program of that name linked to the project
ProjectSubq(q, project_id) ==
    LET split == SplitFirstHyphen(project_id)
        Programs(r) == {pg \in LinkTargets(r, "programs") :
                            AsText(pg, "name") = <<split[1]>>}
        Count(r) == IF AsText(r, "code") = <<split[2]>> THEN Cardinality(Programs(r)) ELSE 0
    IN  SeqExpand(q.rows, Count)

RECURSIVE ProjectSubqs(_, _)
\* the union_all of the subqueries of the ids that split in two
ProjectSubqs(q, project_ids) ==
    IF project_ids = <<>> THEN <<>>
    ELSE LET rest == ProjectSubqs(q, Tail(project_ids))
         IN  IF Len(SplitFirstHyphen(Head(project_ids))) = 2
             THEN ProjectSubq(q, Head(project_ids)) \o rest
             ELSE rest

filter_project_project_id(q, project_ids) ==
    IF \A i \in 1..Len(project_ids) : Len(SplitFirstHyphen(project_ids[i])) # 2
    THEN QFalse(q)
    ELSE [Query(q.entity, ProjectSubqs(q, project_ids)) EXCEPT !.raised = q.raised]

-----------------------------------------------------------------------------
(* authorization_filter                                                     *)

RECURSIVE SetToSeq(_)
SetToSeq(S) ==
    IF S = {} THEN <<>>
    ELSE LET x == CHOOSE y \in S : \A z \in S : y = z \/ StrLess(y, z)
         IN  <<x>> \o SetToSeq(S \ {x})

\* flask.g.read_access_projects: the scope keys the caller may read
read_access_projects == SetToSeq(DOMAIN read_access_permissions)

RECURSIVE WalkFrom(_, _, _)
\* the while loop: follow the first outgoing link of tmp until the authz leaf
\* or the program type; list(...)[0] raises on a type without links
WalkFrom(tmp, path_tmp, fuel) ==
    IF tmp = node_authz_entity \/ tmp = ProgramLabel
    THEN [outcome |-> "done", tmp |-> tmp, path |-> path_tmp]
    ELSE IF Len(PgLinks(tmp)) = 0
    THEN [outcome |-> "raise", tmp |-> tmp, path |-> path_tmp]
    ELSE IF fuel = 0
    THEN [outcome |-> "diverge", tmp |-> tmp, path |-> path_tmp]
    ELSE WalkFrom(PgLinks(tmp)[1].dst_type,
                  Append(path_tmp, PgLinks(tmp)[1].name), fuel - 1)

\* the hierarchy walk of a type below the subject level
HierarchyWalk(cls) ==
    IF Len(PgLinks(cls)) = 0
    THEN [outcome |-> "raise", tmp |-> cls, path |-> <<>>]
    ELSE WalkFrom(PgLinks(cls)[1].dst_type, <<PgLinks(cls)[1].name>>,
                  Cardinality(ConcreteLabels))

\* whether the first block applies to cls
BelowSubjectLevel(cls) ==
    /\ cls # ProjectLabel
    /\ cls # ProgramLabel
    /\ cls # SubjectEntity
    /\ node_authz_entity # None

\* nothing joined: cls and sub_cls as they were
NoJoin(cls) == [raised |-> FALSE, path |-> <<>>, cls |-> cls, sub_cls |-> None]

\* q.path(path) to the authz leaf, then q.path("persons"): cls is rebound to
\* the joined authz leaf and sub_cls is the entity joined through "persons"
JoinToPersons(path) ==
    [raised |-> FALSE, path |-> Append(path, "persons"), cls |-> node_authz_entity,
     sub_cls |-> LinkOf(node_authz_entity, "persons").dst_type]

\* the first block after the walk ended
AfterWalk(cls, walk) ==
    IF walk.outcome # "done" THEN [NoJoin(cls) EXCEPT !.raised = TRUE]
    ELSE IF walk.tmp = node_authz_entity THEN JoinToPersons(walk.path)
    ELSE NoJoin(cls)      \* "WARNING: node not found parent of"

\* the first block: what is joined to the query of cls, and the bindings of
\* cls and sub_cls the second block sees
JoinAuthzLeaf(cls) ==
    IF ~BelowSubjectLevel(cls) THEN NoJoin(cls)
    ELSE IF cls = node_authz_entity THEN JoinToPersons(<<>>)
    ELSE AfterWalk(cls, HierarchyWalk(cls))

\* whether the loop body reaches q.path("subjects") for this permission entry
JoinsSubjects(j, value) ==
    /\ "*" \notin value /\ node_authz_entity # None
    /\ j.cls # ProjectLabel /\ j.cls # ProgramLabel /\ value # {}
    /\ ~(j.cls = node_authz_entity /\ j.sub_cls = SubjectEntity)
    /\ j.cls = SubjectEntity

RECURSIVE PathTuples(_, _)
\* q.path(path): the joined rows, each a tuple of the rows along the path
PathTuples(tuple, path) ==
    IF path = <<>> THEN {tuple}
    ELSE UNION {PathTuples(Append(tuple, m), Tail(path)) :
                    m \in LinkTargets(tuple[Len(tuple)], Head(path))}

\* the joined rows of one entity row n: <<n, ..., row of cls, row of sub_cls>>
AuthTuples(j, n) ==
    IF j.path # <<>> THEN PathTuples(<<n>>, j.path)
    ELSE IF \E key \in DOMAIN read_access_permissions :
                JoinsSubjects(j, read_access_permissions[key])
    THEN {<<n, s>> : s \in BackrefSources(n, "subjects")}
    ELSE {<<n>>}

\* the row of (the rebound) cls and the row of sub_cls / temp_cls in a tuple
ClsRow(j, tuple) == IF j.path # <<>> THEN tuple[Len(tuple) - 1] ELSE tuple[1]
SubRow(tuple) == tuple[Len(tuple)]

\* cls.submitter_id IN value OR sub_cls.submitter_id IN value
SubmitterIdIn(cls_row, sub_row, value) ==
    \/ TextIn(AsText(cls_row, "submitter_id"), value)
    \/ TextIn(AsText(sub_row, "submitter_id"), value)

\* the subject restriction appended to filter_group for one permission entry
SubjectRestriction(j, value, tuple) ==
    IF "*" \notin value /\ node_authz_entity # None
    THEN IF j.cls # ProjectLabel /\ j.cls # ProgramLabel /\ value # {}
         THEN IF (j.cls = node_authz_entity /\ j.sub_cls = SubjectEntity)
                 \/ j.cls = SubjectEntity
              THEN SubmitterIdIn(ClsRow(j, tuple), SubRow(tuple), value)
              ELSE TRUE      \* "ERROR: node found has wrong structure": nothing appended
         ELSE TRUE           \* empty set of subjects: nothing appended
    ELSE TRUE

\* the conjunction of filter_group for one permission entry
FilterGroup(j, key, value, tuple) ==
    /\ AsText(ClsRow(j, tuple), "project_id") = <<key>>
    /\ SubjectRestriction(j, value, tuple)

\* variant of ScopeFilter without the branch for an empty permission map:
\* ands stays empty and no filter is added
ScopeFilterWithoutDeny(j, tuple) ==
    \/ DOMAIN read_access_permissions = {}
    \/ \E key \in DOMAIN read_access_permissions :
            FilterGroup(j, key, read_access_permissions[key], tuple)

\* the filter of the second block on a joined row: the disjunction of ands, or
\* sa.sql.false() for an empty permission map
ScopeFilter(j, tuple) ==
    IF DOMAIN read_access_permissions = {} THEN FALSE
    ELSE \E key \in DOMAIN read_access_permissions :
            FilterGroup(j, key, read_access_permissions[key], tuple)

\* whether the second block applies
IsScoped(j) == j.cls = NodeLabel \/ HasProjectId(j.cls)

\* do not return unauthorized projects
ProjectScope(j, q) ==
    IF j.cls = ProjectLabel THEN filter_project_project_id(q, read_access_projects) ELSE q

\* the second block and the project branch, given the joins of the first
ScopeJoined(q, j) ==
    LET Joined(n) == {t \in AuthTuples(j, n) : IsScoped(j) => ScopeFilter(j, t)}
        Count(n) == Cardinality(Joined(n))
    IN  IF j.raised THEN RaisedQuery(q.entity)
        ELSE ProjectScope(j, [q EXCEPT !.rows = SeqExpand(q.rows, Count)])

authorization_filter(q) == ScopeJoined(q, JoinAuthzLeaf(q.entity))

get_authorized_query(cls) == authorization_filter(DbNodes(cls))

-----------------------------------------------------------------------------
(* apply_query_args: the filter stages, in the order of the code.  args is  *)
(* the argument dictionary: a function whose domain is the keys present.    *)

Raise(q) == [q EXCEPT !.raised = TRUE, !.rows = <<>>]

\* str(v) of an argument value
PyStr(kind, v) == IF kind = "bool" THEN (IF v THEN "True" ELSE "False") ELSE v

\* val if isinstance(val, list) else [val]
WrapList(kind, val) == IF kind = "list" THEN val ELSE <<val>>

\* the filter of one property argument on one row
PropertyKeeps(n, key, val) ==
    LET field_type == PgProperties(n.label)[key]
        text == AsText(n, key)
    IN  IF field_type = "list"
        THEN \A i \in 1..Len(val) :
                text # SqlNull /\ SqlLike(text[1], "%\"" \o val[i] \o "\"%")
        ELSE IF field_type = "bool"
        THEN TextIn(text, {StrLower(PyStr("bool", val[i])) : i \in 1..Len(val)})
        ELSE TextIn(text, {PyStr(field_type, val[i]) : i \in 1..Len(val)})

\* *: filter for those with matching dictionary properties
ApplyPropertyArgs(q, args) ==
    LET keys == DOMAIN args \cap DOMAIN PgProperties(q.entity)
        Keep(n) == \A key \in keys : PropertyKeeps(n, key, args[key])
    IN  QFilter(q, Keep)

\* {list(item.keys())[0]: list(item.values())[0] for item in not_props}:
\* a later item replaces an earlier one with the same key
NotPropsDict(items) ==
    LET ItemKey(i) == CHOOSE k \in DOMAIN items[i] : TRUE
        keys == {ItemKey(i) : i \in 1..Len(items)}
        Last(k) == CHOOSE i \in 1..Len(items) :
                       /\ ItemKey(i) = k
                       /\ \A j \in (i + 1)..Len(items) : ItemKey(j) # k
    IN  [k \in keys |-> items[Last(k)][k]]

\* the negated membership filter of one key on one row
NotKeeps(n, key, val) ==
    LET kind == PgProperties(n.label)[key]
        list == WrapList(kind, val)
        strs == {PyStr(IF kind = "list" THEN "str" ELSE kind, list[i]) : i \in 1..Len(list)}
    IN  NotTextIn(AsText(n, key), strs)

\* not: nest a NOT filter for props, filters out matches
ApplyNotArgs(q, args) ==
    IF "not" \notin DOMAIN args THEN q
    ELSE LET not_props == NotPropsDict(args["not"])
             keys == DOMAIN not_props \cap DOMAIN PgProperties(q.entity)
             Keep(n) == \A key \in keys : NotKeeps(n, key, not_props[key])
         IN  QFilter(q, Keep)

\* id: q.ids(args["id"])
ApplyIdArg(q, args) ==
    LET Keep(n) == n.node_id = args["id"]
    IN  IF "id" \in DOMAIN args THEN QFilter(q, Keep) ELSE q

\* ids: q.ids(args["ids"])
ApplyIdArgs(q, args) ==
    LET Keep(n) == n.node_id \in SeqToSet(args["ids"])
    IN  IF "ids" \in DOMAIN args THEN QFilter(q, Keep) ELSE q

\* submitter_id on the generic supertype
ApplySubmitterIdArg(q, args) ==
    LET Keep(n) == TextIn(AsText(n, "submitter_id"), SeqToSet(args["submitter_id"]))
    IN  IF q.entity = NodeLabel /\ "submitter_id" \in DOMAIN args
        THEN QFilter(q, Keep) ELSE q

\* column.contains(phrase): column LIKE '%' || phrase || '%'
SqlContains(text, phrase) ==
    text # SqlNull /\ SqlLike(text[1], "%" \o phrase \o "%")

\* apply_arg_quicksearch: the order_by of its last statement is built on a
\* copy of q that is dropped, so q is returned without an ordering
apply_arg_quicksearch(q, args) ==
    IF "quick_search" \notin DOMAIN args \/ args["quick_search"] = "" THEN q
    ELSE LET search_phrase == StrLower(args["quick_search"])
             InId(n) == SqlContains(<<StrLower(n.node_id)>>, search_phrase)
             InSub(n) ==
                 /\ AsText(n, "submitter_id") # SqlNull
                 /\ SqlContains(<<StrLower(AsText(n, "submitter_id")[1])>>, search_phrase)
             node_id_query == QFilter(q, InId)
             sub_id_query == QFilter(q, InSub)
         IN  [q EXCEPT !.rows = SeqUnion(node_id_query.rows, sub_id_query.rows)]

\* cls._pg_edges: the names of the outgoing links and of the backrefs
PgEdges(cls) ==
    LinkNames(cls) \cup
    {l.backref : l \in {x \in UNION {SeqToSet(PgLinks(c)) : c \in ConcreteLabels} :
                            x.dst_type = cls}}

\* get_link_attr(cls, link).any(): the row has a neighbour along the edge
HasLink(n, link) ==
    IF link \in LinkNames(n.label) THEN LinkTargets(n, link) # {}
    ELSE BackrefSources(n, link) # {}

RECURSIVE LinkSubqsOfTable(_, _)
\* variant of LinkSubqs: the subqueries select from the table of the type,
\* not from the query built so far
LinkSubqsOfTable(q, links) ==
    IF links = <<>> THEN <<>>
    ELSE LET Keep(n) == HasLink(n, Head(links))
         IN  SeqFilter(DbNodes(q.entity).rows, Keep) \o LinkSubqsOfTable(q, Tail(links))

RECURSIVE LinkSubqs(_, _)
\* sa.union_all of one subquery per link: the rows of q that have the link
LinkSubqs(q, links) ==
    IF links = <<>> THEN <<>>
    ELSE LET Keep(n) == HasLink(n, Head(links))
         IN  SeqFilter(q.rows, Keep) \o LinkSubqs(q, Tail(links))

\* a link argument names an edge the type does not have: get_link_attr raises
InvalidLinkArg(q, args, key) ==
    key \in DOMAIN args /\ \E i \in 1..Len(args[key]) : args[key][i] \notin PgEdges(q.entity)

\* with_links: (AND) all of the links are non-empty
ApplyWithLinks(q, args) ==
    LET Keep(n) == \A i \in 1..Len(args["with_links"]) : HasLink(n, args["with_links"][i])
    IN  IF "with_links" \in DOMAIN args THEN QFilter(q, Keep) ELSE q

\* with_links_any: (OR) the union_all of one subquery per link of set(links)
ApplyWithLinksAny(q, args) ==
    IF "with_links_any" \in DOMAIN args /\ args["with_links_any"] # <<>>
    THEN [q EXCEPT !.rows = LinkSubqs(q, SetToSeq(SeqToSet(args["with_links_any"])))]
    ELSE q

\* without_links: (AND) none of the links is non-empty
ApplyWithoutLinks(q, args) ==
    LET Keep(n) == \A i \in 1..Len(args["without_links"]) :
                       ~HasLink(n, args["without_links"][i])
    IN  IF "without_links" \in DOMAIN args THEN QFilter(q, Keep) ELSE q

\* with_links, with_links_any, without_links
ApplyLinkArgs(q, args) ==
    IF q.raised THEN q
    ELSE IF \/ InvalidLinkArg(q, args, "with_links")
            \/ InvalidLinkArg(q, args, "with_links_any")
            \/ InvalidLinkArg(q, args, "without_links")
    THEN Raise(q)
    ELSE ApplyWithoutLinks(ApplyWithLinksAny(ApplyWithLinks(q, args), args), args)

-----------------------------------------------------------------------------
(* Traversal filters.  subq_paths lives in traversal.py; it is modelled     *)
(* from the specification: one path per (source, destination) pair, found   *)
(* by a search over the schema graph that never revisits a type.            *)

\* the edges of a type in search order: outgoing links, then backrefs
SchemaEdges(cls) ==
    LET Out(i) == [name |-> PgLinks(cls)[i].name, type |-> PgLinks(cls)[i].dst_type]
        back == SetToSeq({l.backref : l \in {x \in UNION {SeqToSet(PgLinks(c)) : c \in ConcreteLabels} :
                                                x.dst_type = cls}})
        Src(b) == CHOOSE c \in ConcreteLabels : \E j \in 1..Len(PgLinks(c)) :
                      PgLinks(c)[j].dst_type = cls /\ PgLinks(c)[j].backref = b
    IN  [i \in 1..Len(PgLinks(cls)) |-> Out(i)] \o
        [i \in 1..Len(back) |-> [name |-> back[i], type |-> Src(back[i])]]

\* the path through the edge of the given name when the search below it
\* found one, else the path the later edges give
PathThrough(name, sub, later) == IF sub # <<>> THEN <<name>> \o sub ELSE later

RECURSIVE FindPath(_, _, _, _)
RECURSIVE FindPathIn(_, _, _, _, _)
\* the first path from cur to dst over types not yet visited, trying the
\* edges es of cur from the i-th on; <<>> when there is none
FindPathIn(es, cur, dst, visited, i) ==
    IF i > Len(es) THEN <<>>
    ELSE IF es[i].type = dst THEN <<es[i].name>>
    ELSE IF es[i].type \in visited THEN FindPathIn(es, cur, dst, visited, i + 1)
    ELSE PathThrough(es[i].name,
                     FindPath(es[i].type, dst, visited \cup {es[i].type}, 1),
                     FindPathIn(es, cur, dst, visited, i + 1))

FindPath(cur, dst, visited, i) == FindPathIn(SchemaEdges(cur), cur, dst, visited, i)

Neighbours(n, edge) ==
    IF edge \in LinkNames(n.label) THEN LinkTargets(n, edge) ELSE BackrefSources(n, edge)

RECURSIVE PathEnds(_, _)
\* the rows reached from the rows S along a path
PathEnds(S, path) ==
    IF path = <<>> THEN S
    ELSE PathEnds(UNION {Neighbours(n, Head(path)) : n \in S}, Tail(path))

\* end_of_traversal_filter: id by q.ids, any other key by JSONB containment
EndOfTraversalKeeps(m, entry) ==
    \A key \in DOMAIN entry \ {"type"} :
        IF key = "id" THEN m.node_id = entry[key]
        ELSE /\ key \in DOMAIN m.props
             /\ key \in DOMAIN PgProperties(m.label)
             /\ IF PgProperties(m.label)[key] = "list"
                THEN SeqToSet(entry[key]) \subseteq SeqToSet(m.props[key])
                ELSE m.props[key] = entry[key]

\* the rows of q from which the path reaches a row the entry's filter keeps
SubqAlong(q, entry, path) ==
    LET Keep(n) == \E m \in PathEnds({n}, path) : EndOfTraversalKeeps(m, entry)
    IN  IF entry["type"] \notin ConcreteLabels THEN Raise(q)
        ELSE IF path = <<>> THEN QFalse(q)
        ELSE QFilter(q, Keep)

\* subq_paths(q, dst_type, end_of_traversal_filter)
subq_paths(q, entry) ==
    SubqAlong(q, entry, FindPath(q.entity, entry["type"], {q.entity}, 1))

\* q.subq_path("_related_cases", end_of_traversal_filter): the rows with a
\* shortcut edge to a case the entry's filter keeps
SubqToCase(q, entry) ==
    LET Keep(n) == \E m \in NodeSet :
                       /\ m.label = CaseLabel
                       /\ [src |-> n.node_id, dst |-> m.node_id, label |-> RelatedCases] \in edges
                       /\ EndOfTraversalKeeps(m, entry)
    IN  IF HasRelatedCases(q.entity) THEN QFilter(q, Keep) ELSE QFalse(q)

\* q.limit(None), then q.subq_path("_related_<dst_type>", end_of_traversal_filter):
\* the cases a row of the destination type, kept by the filter, is related to
SubqFromCase(q, entry) ==
    LET Keep(c) == \E m \in NodeSet :
                       /\ m.label = entry["type"]
                       /\ [src |-> m.node_id, dst |-> c.node_id, label |-> RelatedCases] \in edges
                       /\ EndOfTraversalKeeps(m, entry)
        unlimited == [q EXCEPT !.limit = <<>>]
    IN  IF HasRelatedFromCase(entry["type"]) THEN QFilter(unlimited, Keep) ELSE QFalse(unlimited)

\* variant that falls back to the full traversal when the shortcut is absent
SubqForOrTraversal(q, entry) ==
    IF case_cache /\ entry["type"] = CaseLabel /\ HasRelatedCases(q.entity)
    THEN SubqToCase(q, entry)
    ELSE IF case_cache /\ entry["type"] # CaseLabel /\ q.entity = CaseLabel
            /\ HasRelatedFromCase(entry["type"])
    THEN SubqFromCase(q, entry)
    ELSE subq_paths(q, entry)

\* the subquery of one entry: the shortcuts to and from case when the case
\* cache is enabled, otherwise the full traversal
SubqFor(q, entry) ==
    IF case_cache /\ entry["type"] = CaseLabel THEN SubqToCase(q, entry)
    ELSE IF case_cache /\ q.entity = CaseLabel THEN SubqFromCase(q, entry)
    ELSE subq_paths(q, entry)

RECURSIVE WithPathAnd(_, _)
\* union=False: each subquery becomes the query the next entry filters
WithPathAnd(q, value) ==
    IF value = <<>> \/ q.raised THEN q
    ELSE IF "type" \notin DOMAIN Head(value) THEN Raise(q)
    ELSE WithPathAnd(SubqFor(q, Head(value)), Tail(value))

\* a.union(b)
QUnion(q, a, b) ==
    IF a.raised \/ b.raised THEN Raise(q)
    ELSE [q EXCEPT !.rows = SeqUnion(a.rows, b.rows)]

RECURSIVE WithPathUnion(_, _)
RECURSIVE UnionWithRest(_, _, _)
\* the first subquery, in union with the subqueries of the other entries
UnionWithRest(q, first, rest) ==
    IF rest = <<>> THEN first ELSE QUnion(q, first, WithPathUnion(q, rest))

WithPathUnionFirst(q, value) ==
    IF "type" \notin DOMAIN Head(value) THEN Raise(q) ELSE SubqFor(q, Head(value))

\* union=True: the UNION of the subqueries of the entries, each on q
WithPathUnion(q, value) ==
    IF "type" \notin DOMAIN Head(value) THEN Raise(q)
    ELSE UnionWithRest(q, SubqFor(q, Head(value)), Tail(value))

\* variant without the branch for a union over no subqueries
with_path_to_unfiltered(q, value, union) ==
    IF ~union \/ value = <<>> THEN WithPathAnd(q, value)
    ELSE WithPathUnion(q, value)

with_path_to(q, value, union) ==
    IF ~union THEN WithPathAnd(q, value)
    ELSE IF value = <<>> THEN QFalse(q)
    ELSE WithPathUnion(q, value)

QExceptNothing(q, w) == q

\* q.except_(w)
QExcept(q, w) ==
    IF w.raised THEN Raise(q) ELSE [q EXCEPT !.rows = SeqExcept(q.rows, w.rows)]

\* with_path_to
ApplyWithPathTo(q, args) ==
    IF q.raised \/ "with_path_to" \notin DOMAIN args THEN q
    ELSE with_path_to(q, args["with_path_to"], FALSE)

\* with_path_to_any
ApplyWithPathToAny(q, args) ==
    IF q.raised \/ "with_path_to_any" \notin DOMAIN args THEN q
    ELSE with_path_to(q, args["with_path_to_any"], TRUE)

\* without_path_to
ApplyWithoutPathTo(q, args) ==
    IF q.raised \/ "without_path_to" \notin DOMAIN args THEN q
    ELSE QExcept(q, with_path_to(q, args["without_path_to"], FALSE))

\* with_path_to, with_path_to_any, without_path_to
ApplyPathArgs(q, args) ==
    ApplyWithoutPathTo(ApplyWithPathToAny(ApplyWithPathTo(q, args), args), args)

\* project.project_id: Filter projects by logical project_id
ApplyProjectIdArg(q, args) ==
    IF ~q.raised /\ "project_id" \in DOMAIN args /\ q.entity = ProjectLabel
    THEN filter_project_project_id(q, args["project_id"])
    ELSE q

\* order_by_asc, order_by_desc
ApplyOrderArgs(q, args) ==
    LET Known(key) == key = "id" \/ key = "type" \/ key \in DOMAIN PgProperties(q.entity)
        Add(o, key, desc) == IF key = "type" THEN o ELSE Append(o, [key |-> key, desc |-> desc])
        Asc(o) == IF "order_by_asc" \in DOMAIN args
                  THEN Add(o, args["order_by_asc"], FALSE) ELSE o
        Desc(o) == IF "order_by_desc" \in DOMAIN args
                   THEN Add(o, args["order_by_desc"], TRUE) ELSE o
    IN  IF q.raised THEN q
        ELSE IF \/ "order_by_asc" \in DOMAIN args /\ ~Known(args["order_by_asc"])
                \/ "order_by_desc" \in DOMAIN args /\ ~Known(args["order_by_desc"])
        THEN Raise(q)
        ELSE [q EXCEPT !.order = Desc(Asc(q.order))]

DEFAULT_LIMIT == 10

apply_arg_limit(q, args) ==
    LET limit == IF "first" \in DOMAIN args THEN args["first"] ELSE DEFAULT_LIMIT
    IN  IF ~q.raised /\ limit > 0 THEN [q EXCEPT !.limit = <<limit>>] ELSE q

apply_arg_offset(q, args) ==
    LET offset == IF "offset" \in DOMAIN args THEN args["offset"] ELSE 0
    IN  IF ~q.raised /\ offset > 0 THEN [q EXCEPT !.offset = <<offset>>] ELSE q

\* the stages before ordering and pagination; a stage that raised ends them
ApplyFilterArgs(q, args) ==
    ApplyProjectIdArg(
      ApplyPathArgs(
        ApplyLinkArgs(
          apply_arg_quicksearch(
            ApplySubmitterIdArg(
              ApplyIdArgs(ApplyIdArg(
                ApplyNotArgs(ApplyPropertyArgs(q, args), args), args), args),
              args), args), args), args), args)

apply_query_args(q, args) ==
    apply_arg_offset(apply_arg_limit(ApplyOrderArgs(ApplyFilterArgs(q, args), args), args), args)

-----------------------------------------------------------------------------
(* Executing a query.                                                       *)

SortValue(n, key) == IF key = "id" THEN <<n.node_id>> ELSE AsText(n, key)

\* va sorts strictly before vb (ascending puts NULL last, descending first)
TextBefore(va, vb, desc) ==
    IF desc
    THEN vb # SqlNull /\ (va = SqlNull \/ StrLess(vb[1], va[1]))
    ELSE va # SqlNull /\ (vb = SqlNull \/ StrLess(va[1], vb[1]))

\* a sorts strictly before b under one ORDER BY item
ItemBefore(a, b, item) ==
    TextBefore(SortValue(a, item.key), SortValue(b, item.key), item.desc)

RECURSIVE RowBefore(_, _, _)
RowBefore(a, b, order) ==
    IF order = <<>> THEN FALSE
    ELSE IF ItemBefore(a, b, Head(order)) THEN TRUE
    ELSE IF ItemBefore(b, a, Head(order)) THEN FALSE
    ELSE RowBefore(a, b, Tail(order))

InsertAt(front, r, k) == SubSeq(front, 1, k) \o <<r>> \o SubSeq(front, k + 1, Len(front))

\* r placed after the sorted rows it does not sort strictly before
InsertRow(front, r, order) ==
    InsertAt(front, r, Cardinality({i \in 1..Len(front) : ~RowBefore(r, front[i], order)}))

RECURSIVE SortRows(_, _)
\* ORDER BY: rows that compare equal keep the order they were selected in
SortRows(rows, order) ==
    IF rows = <<>> THEN <<>>
    ELSE InsertRow(SortRows(SubSeq(rows, 1, Len(rows) - 1), order), rows[Len(rows)], order)

\* LIMIT l OFFSET o: skip o rows, then yield at most l rows
CutRows(rows, limit, offset) ==
    LET skip == IF offset = <<>> THEN 0 ELSE offset[1]
        rest == SubSeq(rows, skip + 1, Len(rows))
    IN  IF limit = <<>> \/ limit[1] >= Len(rest) THEN rest ELSE SubSeq(rest, 1, limit[1])

\* the rows of the statement
Fetch(q) == CutRows(SortRows(q.rows, q.order), q.limit, q.offset)

\* Query.all(): the entities of the fetched rows, each once
QueryAll(q) == Unique(Fetch(q))

NodeIds(rows) == [i \in 1..Len(rows) |-> rows[i].node_id]

\* clean_count: a SELECT of the row count over the rows inside the from_self wrapping,
\* with the LIMIT/OFFSET of the query applied to the one row of the aggregate
clean_count(q) ==
    IF (q.limit # <<>> /\ q.limit[1] = 0) \/ q.offset # <<>> THEN <<>>
    ELSE <<Len(q.rows)>>

-----------------------------------------------------------------------------
(* The queries of the resolvers.                                            *)

\* create_root_fields.resolver: the object resolver of a type
RootQuery(cls, args) == apply_query_args(get_authorized_query(cls), args)

AddCountEscapesOtherArgs(cls, args) ==
    \/ cls # NodeLabel /\ ~HasProjectId(cls)
    \/ cls = ProjectLabel
    \/ IF "project_id" \notin DOMAIN args THEN TRUE
       ELSE Len(args["project_id"]) # 1

\* NodeCounter.add_count returns None (the request is not batched)
AddCountEscapes(cls, args) ==
    \/ cls # NodeLabel /\ ~HasProjectId(cls)
    \/ cls = ProjectLabel
    \/ IF DOMAIN args # {"project_id"} THEN TRUE
       ELSE Len(args["project_id"]) # 1

AddCountNeverDenied(args) == FALSE

\* NodeCounter.add_count returns 0: the scope key is not readable
AddCountDenied(args) ==
    args["project_id"][1] \notin SeqToSet(read_access_projects)

\* q.limit(args.get("first", None))
CountLimit(q, args) ==
    IF q.raised THEN q
    ELSE IF "first" \notin DOMAIN args THEN [q EXCEPT !.limit = <<>>]
    ELSE IF args["first"] < 0 THEN Raise(q)     \* LIMIT must not be negative
    ELSE [q EXCEPT !.limit = <<args["first"]>>]

\* create_root_fields.count_resolver after add_count returned None
CountQuery(cls, args) == CountLimit(RootQuery(cls, args), args)

\* the type and the reverse name of an edge of cls
EdgeTarget(cls, edge) ==
    IF edge \in LinkNames(cls)
    THEN [type |-> LinkOf(cls, edge).dst_type, backref |-> LinkOf(cls, edge).backref]
    ELSE LET src == CHOOSE c \in ConcreteLabels : \E j \in 1..Len(PgLinks(c)) :
                        PgLinks(c)[j].dst_type = cls /\ PgLinks(c)[j].backref = edge
             l == CHOOSE x \in SeqToSet(PgLinks(src)) : x.dst_type = cls /\ x.backref = edge
         IN  [type |-> src, backref |-> l.name]

\* sq: the authorized rows of the target type that have self on the backref
LinkSubquery(auth, self, backref) ==
    LET Near(t) == self \in Neighbours(t, backref)
    IN  QFilter(auth, Near)

\* get_authorized_query(target).filter(target.node_id == sq.c.node_id): one
\* row per pair of a row of the query and a row of sq with the same id
JoinOnNodeId(auth, sq) ==
    LET Count(t) == Cardinality({i \in 1..Len(sq.rows) : sq.rows[i] = t})
    IN  [auth EXCEPT !.rows = SeqExpand(auth.rows, Count)]

LinkNeighbours(auth, self, backref) ==
    JoinOnNodeId(auth, LinkSubquery(auth, self, backref))

\* get_node_class_link_resolver_attrs.link_query
link_query(self, edge, args) ==
    apply_query_args(
        LinkNeighbours(get_authorized_query(EdgeTarget(self.label, edge).type), self,
                       EdgeTarget(self.label, edge).backref),
        args)

\* the arguments of the interfaces are scalars: val if isinstance(val, list) else [val]
WrapScalarArgs(args) ==
    [k \in DOMAIN args |->
        IF k \in {"project_id", "submitter_id"} THEN <<args[k]>> ELSE args[k]]

\* q.filter(q.entity()._props["project_id"].astext == args["project_id"])
ProjectIdEquals(q, args) ==
    LET InProject(n) == AsText(n, "project_id") = <<args["project_id"]>>
    IN  IF "project_id" \in DOMAIN args THEN QFilter(q, InProject) ELSE q

\* query_with_args: the query of one class
ClassQuery(cls, args) ==
    apply_query_args(ProjectIdEquals(get_authorized_query(cls), args), WrapScalarArgs(args))

\* all_items.extend(q.all())
ExtendItems(q, rest) ==
    IF q.raised \/ rest.raised THEN [raised |-> TRUE, rows |-> <<>>]
    ELSE [raised |-> FALSE, rows |-> QueryAll(q) \o rest.rows]

RECURSIVE QueryWithArgsFrom(_, _)
\* the loop over the classes, in turn
QueryWithArgsFrom(classes, args) ==
    IF classes = <<>> THEN [raised |-> FALSE, rows |-> <<>>]
    ELSE IF "of_type" \in DOMAIN args /\ args["of_type"] # <<>>
            /\ Head(classes) \notin SeqToSet(args["of_type"])
    THEN QueryWithArgsFrom(Tail(classes), args)
    ELSE ExtendItems(ClassQuery(Head(classes), args), QueryWithArgsFrom(Tail(classes), args))

\* first and offset applied once more, to the concatenated items
query_with_args_paged(classes, args) ==
    LET all_items == QueryWithArgsFrom(classes, args)
        skip == IF "offset" \in DOMAIN args /\ args["offset"] > 0 THEN args["offset"] ELSE 0
        rest == SubSeq(all_items.rows, skip + 1, Len(all_items.rows))
    IN  IF all_items.raised \/ "first" \notin DOMAIN args \/ args["first"] <= 0
           \/ args["first"] >= Len(rest)
        THEN [all_items EXCEPT !.rows = rest]
        ELSE [all_items EXCEPT !.rows = SubSeq(rest, 1, args["first"])]

query_with_args(classes, args) == QueryWithArgsFrom(classes, args)

\* ids += [n.node_id for n in q.all()]
ExtendIds(label, q, rest) ==
    IF label \notin ConcreteLabels \/ q.raised \/ rest.raised
    THEN [raised |-> TRUE, ids |-> {}]
    ELSE [raised |-> FALSE, ids |-> SeqToSet(NodeIds(QueryAll(q))) \cup rest.ids]

RECURSIVE OfTypeIds(_, _)
\* the ids loaded per type by the of_type compatibility path
OfTypeIds(labels, args) ==
    IF labels = <<>> THEN [raised |-> FALSE, ids |-> {}]
    ELSE ExtendIds(Head(labels),
                   apply_query_args(get_authorized_query(Head(labels)), args),
                   OfTypeIds(Tail(labels), args))

\* get_authorized_query(psqlgraph.Node).ids(ids), limited and offset
IdsQuery(found, auth, args) ==
    LET Keep(n) == n.node_id \in found.ids
    IN  IF found.raised \/ auth.raised THEN [raised |-> TRUE, rows |-> <<>>]
        ELSE [raised |-> FALSE,
              rows |-> QueryAll(apply_arg_offset(apply_arg_limit(QFilter(auth, Keep), args), args))]

query_node_with_args(args) ==
    IF "of_type" \in DOMAIN args
    THEN IdsQuery(OfTypeIds(SetToSeq(SeqToSet(args["of_type"])), WrapScalarArgs(args)),
                  get_authorized_query(NodeLabel), args)
    ELSE query_with_args(<<NodeLabel>>, args)

\* dictionary.schema[node]["category"]
Category(cls) ==
    CASE cls = ProgramLabel -> "administrative"
      [] cls = ProjectLabel -> "administrative"
      [] cls = SubjectEntity -> "administrative"
      [] cls = AuthzLeaf -> "administrative"
      [] cls = CaseLabel -> "administrative"
      [] cls = "lab" -> "clinical"
      [] OTHER -> "data_file"

\* psqlgraph.Node.get_subclasses()
Subclasses == SetToSeq(ConcreteLabels)

\* resolve_node
NodeQuery(args) ==
    IF "category" \in DOMAIN args /\ args["category"] # ""
    THEN LET InCategory(c) == StrContains(args["category"], Category(c))
         IN  query_with_args(SeqFilter(Subclasses, InCategory), args)
    ELSE query_node_with_args(args)

\* resolve_datanode: the classes whose category ends with _file
DatanodeQuery(args) ==
    LET IsData(c) == Len(Category(c)) >= 5 /\
                     SubSeq(Category(c), Len(Category(c)) - 4, Len(Category(c))) = "_file"
    IN  query_with_args(SeqFilter(Subclasses, IsData), args)

-----------------------------------------------------------------------------
(* Actions: one per resolver.  The stored graph and the request context are *)
(* read, never written.                                                     *)

\* A behaviour is one request: its fields are resolved one after another
\* against the stored graph; call, status, result and count are those of the
\* field resolved last.
Return(c, raised, rows, n) ==
    /\ fields_left > 0
    /\ fields_left' = fields_left - 1
    /\ call' = c
    /\ status' = IF raised THEN "error" ELSE "ok"
    /\ result' = IF raised THEN <<>> ELSE NodeIds(rows)
    /\ count' = IF raised THEN <<>> ELSE n
    /\ UNCHANGED <<nodes, edges, read_access_permissions, node_authz_entity, case_cache>>
    /\ UNCHANGED <<placeholders, queries, promises, statements, runs>>

\* [... for n in q.all()]
ReturnAll(c, q) == Return(c, q.raised, QueryAll(q), <<>>)
\* clean_count(q)
ReturnCount(c, q) == Return(c, q.raised, Unique(q.rows), clean_count(q))
\* the items the interface queries collected
ReturnItems(c, r) == Return(c, r.raised, r.rows, <<>>)

NoSelf == ""

resolver(cls, args) ==
    ReturnAll([op |-> "resolver", cls |-> cls, args |-> args, self |-> NoSelf],
              RootQuery(cls, args))

\* return rv: the 0 of add_count
ReturnZero(c) == Return(c, FALSE, <<>>, <<0>>)

\* variant that names the placeholder after the pooled query
PlaceholderNamePerQuery(project_id) == "p_" \o ToString(Len(queries))

\* the placeholder name of the scope key: the one it has, else "p_<n>"
PlaceholderName(project_id) ==
    IF project_id \in DOMAIN placeholders THEN placeholders[project_id]
    ELSE "p_" \o ToString(Cardinality(DOMAIN placeholders))

\* (key, promise, scalar subquery): count(*) of the table of cls where the
\* project_id is the value bound to the placeholder
PooledQuery(cls, project_id) ==
    [ key |-> "c_" \o ToString(Len(queries)), promise |-> Len(promises) + 1,
      table |-> cls, param |-> PlaceholderName(project_id) ]

NewPromise == [value |-> <<>>, fulfilled |-> 0]

\* add_count pools the request and the resolver returns the promise
PoolCount(c, cls, project_id) ==
    /\ fields_left > 0
    /\ fields_left' = fields_left - 1
    /\ placeholders' = (project_id :> PlaceholderName(project_id)) @@ placeholders
    /\ queries' = Append(queries, PooledQuery(cls, project_id))
    /\ promises' = Append(promises, NewPromise)
    /\ call' = c
    /\ status' = "ok"
    /\ result' = <<>>
    /\ count' = <<"promise", Len(promises) + 1>>
    /\ UNCHANGED <<nodes, edges, read_access_permissions, node_authz_entity, case_cache>>
    /\ UNCHANGED <<statements, runs>>

CountCall(cls, args) == [op |-> "count_resolver", cls |-> cls, args |-> args, self |-> NoSelf]

count_resolver(cls, args) ==
    IF AddCountEscapes(cls, args)
    THEN ReturnCount(CountCall(cls, args), CountQuery(cls, args))
    ELSE IF AddCountDenied(args) THEN ReturnZero(CountCall(cls, args))
    ELSE PoolCount(CountCall(cls, args), cls, args["project_id"][1])

\* dict((v, k) for k, v in self._project_ids.items())
StatementParams ==
    [name \in {placeholders[k] : k \in DOMAIN placeholders} |->
        CHOOSE k \in DOMAIN placeholders : placeholders[k] = name]

\* (SELECT count(*) FROM <table> WHERE _props->>'project_id' = :<param>)
ScalarSubquery(table, project_id) ==
    Cardinality({n \in NodeSet : n.label = table /\ AsText(n, "project_id") = <<project_id>>})

\* the row of the statement: one column per pooled query, named by its key
StatementRow ==
    [key \in {queries[i].key : i \in 1..Len(queries)} |->
        LET qy == queries[CHOOSE i \in 1..Len(queries) : queries[i].key = key]
        IN  ScalarSubquery(qy.table, StatementParams[qy.param])]

\* session.execute(sql, params).fetchone()
ExecutedStatement ==
    [ columns |-> [i \in 1..Len(queries) |-> queries[i].key],
      params |-> StatementParams,
      row |-> StatementRow ]

FulfilWithFirstColumn ==
    [i \in 1..Len(promises) |->
        [value |-> <<StatementRow[queries[1].key]>>, fulfilled |-> promises[i].fulfilled + 1]]

\* promise.fulfill(results[key]) for every pooled query
FulfilPooled ==
    [i \in 1..Len(promises) |->
        IF \E j \in 1..Len(queries) : queries[j].promise = i
        THEN LET j == CHOOSE k \in 1..Len(queries) : queries[k].promise = i
             IN  [value |-> <<StatementRow[queries[j].key]>>,
                  fulfilled |-> promises[i].fulfilled + 1]
        ELSE promises[i]]

MaxRuns == 2       \* calls of NodeCounter.run in a request

\* NodeCounter.run
run ==
    /\ runs < MaxRuns
    /\ runs' = runs + 1
    /\ IF queries = <<>>
       THEN UNCHANGED <<statements, promises>>
       ELSE /\ statements' = Append(statements, ExecutedStatement)
            /\ promises' = FulfilPooled
    /\ UNCHANGED <<nodes, edges, read_access_permissions, node_authz_entity, case_cache>>
    /\ UNCHANGED <<fields_left, placeholders, queries, call, status, result, count>>

resolve_link(self, edge, args) ==
    ReturnAll([op |-> "resolve_link", cls |-> EdgeTarget(self.label, edge).type,
               args |-> args, self |-> self.node_id],
              link_query(self, edge, args))

resolve_node(args) ==
    ReturnItems([op |-> "resolve_node", cls |-> NodeLabel, args |-> args, self |-> NoSelf],
                NodeQuery(args))

resolve_datanode(args) ==
    ReturnItems([op |-> "resolve_datanode", cls |-> NodeLabel, args |-> args, self |-> NoSelf],
                DatanodeQuery(args))

-----------------------------------------------------------------------------
(* Stored graphs, request contexts and argument bundles.                    *)

Row(id, label, props) == [node_id |-> id, label |-> label, props |-> props]
Edge(src, dst, label) == [src |-> src, dst |-> dst, label |-> label]

NoArgs == <<>>
NoCall == [op |-> "none", cls |-> None, args |-> NoArgs, self |-> NoSelf]

\* the edges of E between stored rows
EdgesAmong(rows, E) ==
    {e \in E : e.src \in SeqToSet(NodeIds(rows)) /\ e.dst \in SeqToSet(NodeIds(rows))}

\* the subsequences of s with at most k elements
RECURSIVE SubSeqsUpTo(_, _)
SubSeqsUpTo(s, k) ==
    IF s = <<>> \/ k = 0 THEN {<<>>}
    ELSE SubSeqsUpTo(Tail(s), k) \cup {<<Head(s)>> \o t : t \in SubSeqsUpTo(Tail(s), k - 1)}

\* the permission maps over the keys with at most k entries
PermissionMaps(keys, values, k) ==
    UNION {[d -> values] : d \in {x \in SUBSET keys : Cardinality(x) <= k}}

MaxNodes == 3      \* stored rows of a graph
MaxScopes == 1     \* entries of a permission map

GraphRows ==
    << Row("pg1", ProgramLabel, [name |-> "P"]),
       Row("pj1", ProjectLabel, [code |-> "a", state |-> "open"]),
       Row("pj2", ProjectLabel, [code |-> "b", state |-> "closed"]),
       Row("pe1", SubjectEntity, [project_id |-> "P-a", submitter_id |-> "s1"]),
       Row("pe2", SubjectEntity, [project_id |-> "P-b", submitter_id |-> "s2"]),
       Row("su1", AuthzLeaf, [project_id |-> "P-a", submitter_id |-> "u1"]),
       Row("lb2", "lab", [project_id |-> "P-b", submitter_id |-> "L2", state |-> "a",
                          consent_codes |-> <<"x">>, fasting |-> TRUE]),
       Row("cm1", "core_metadata_collection", [project_id |-> "P-a", submitter_id |-> "c1"]) >>

GraphEdges ==
    { Edge("pj1", "pg1", "programs"), Edge("pj2", "pg1", "programs"),
      Edge("pe1", "pj1", "projects"), Edge("pe2", "pj2", "projects"),
      Edge("su1", "pe1", "persons"),
      Edge("su1", "pj1", "projects"), Edge("lb2", "su1", "subjects"),
      Edge("cm1", "pj1", "projects") }

ScopeKeys == {"P-a", "P-b"}
SubjectSets == {{"*"}, {}, {"u1"}, {"s9"}}

\* argument bundles of the per-type fields
TypeArgs ==
    { NoArgs,
      [project_id |-> <<"P-a">>], [project_id |-> <<"P-b">>],
      [state |-> <<"a", "closed">>],
      [not |-> << [state |-> "a"] >>],
      [quick_search |-> "1"],
      [with_links_any |-> <<"subjects", "projects">>],
      [with_path_to |-> << [type |-> ProjectLabel, code |-> "a"] >>],
      [with_path_to_any |-> << [type |-> AuthzLeaf], [type |-> ProgramLabel] >>],
      [without_path_to |-> << [type |-> SubjectEntity] >>],
      [order_by_desc |-> "id"],
      [first |-> 1], [first |-> 0, offset |-> 1] }

\* argument bundles of the count fields and of the link fields
CountArgs ==
    { NoArgs, [project_id |-> <<"P-a", "P-b">>], [first |-> 1],
      [first |-> 0, offset |-> 1] }
LinkArgs ==
    { NoArgs, [project_id |-> <<"P-a">>], [quick_search |-> "1"], [first |-> 1] }

\* argument bundles of the node and datanode interfaces
InterfaceArgs ==
    { [first |-> DEFAULT_LIMIT],
      [first |-> DEFAULT_LIMIT, project_id |-> "P-b"],
      [first |-> DEFAULT_LIMIT, category |-> "clinical"],
      [first |-> 1, of_type |-> <<"lab", SubjectEntity>>],
      [first |-> DEFAULT_LIMIT, of_type |-> <<"core_metadata_collection">>, quick_search |-> "c"] }

\* NodeCounter.__init__, and a session that executed nothing yet
NewCounter ==
    /\ placeholders = <<>>
    /\ queries = <<>>
    /\ promises = <<>>
    /\ statements = <<>>
    /\ runs = 0

Init ==
    /\ nodes \in SubSeqsUpTo(GraphRows, MaxNodes)
    /\ edges = EdgesAmong(nodes, GraphEdges)
    /\ read_access_permissions \in PermissionMaps(ScopeKeys, SubjectSets, MaxScopes)
    /\ node_authz_entity \in {None, AuthzLeaf}
    /\ case_cache = FALSE
    /\ fields_left = 1
    /\ NewCounter
    /\ call = NoCall
    /\ status = "idle"
    /\ result = <<>>
    /\ count = <<>>

Next ==
    \/ \E cls \in ConcreteLabels, args \in TypeArgs : resolver(cls, args)
    \/ \E cls \in ConcreteLabels, args \in CountArgs : count_resolver(cls, args)
    \/ \E self \in NodeSet, args \in LinkArgs :
          \E edge \in PgEdges(self.label) : resolve_link(self, edge, args)
    \/ \E args \in InterfaceArgs : resolve_node(args)
    \/ \E args \in InterfaceArgs : resolve_datanode(args)

Spec == Init /\ [][Next]_vars

-----------------------------------------------------------------------------
(* Queries of one type over tables with varied property values: the filter, *)
(* search and pagination arguments of the per-type fields.                  *)

MaxRows == 12      \* stored rows of a long table

\* property values of a lab row
LabVariants ==
    << [project_id |-> "P-a", submitter_id |-> "b1", state |-> "a",
        consent_codes |-> <<"x">>, fasting |-> TRUE],
       [project_id |-> "P-a", submitter_id |-> "ab12", state |-> "b",
        consent_codes |-> <<"x", "y">>, fasting |-> FALSE],
       [project_id |-> "P-a", submitter_id |-> "ab12-long"],
       [project_id |-> "P-a", submitter_id |-> "c", state |-> "a",
        consent_codes |-> <<"y">>, fasting |-> FALSE] >>

\* the tables of at most two lab rows, in both storage orders
ShortTables ==
    {<<>>} \cup {<<Row("lb1", "lab", LabVariants[v])>> : v \in 1..Len(LabVariants)}
    \cup {<<Row("lb1", "lab", LabVariants[v]), Row("lb2", "lab", LabVariants[w])>> :
              v \in 1..Len(LabVariants), w \in 1..Len(LabVariants)}

\* a table of k lab rows
LongTable(k) ==
    [i \in 1..k |-> Row("lb" \o ToString(i), "lab", LabVariants[(i % Len(LabVariants)) + 1])]

\* subjects with one or two links, stored in different orders
SubjectTables ==
    LET pe == Row("pe1", SubjectEntity, [project_id |-> "P-a", submitter_id |-> "s1"])
        pj == Row("pj1", ProjectLabel, [code |-> "a", state |-> "open"])
        s1 == Row("su1", AuthzLeaf, [project_id |-> "P-a", submitter_id |-> "u1"])
        s2 == Row("su2", AuthzLeaf, [project_id |-> "P-a", submitter_id |-> "u2"])
        pg == Row("pg1", ProgramLabel, [name |-> "P"])
    IN  { <<pe, pj, s1, s2>>, <<pe, pj, s2, s1>>, <<pj, s2>>, <<pg, pj>> }

SubjectEdges ==
    { Edge("su1", "pe1", "persons"), Edge("su1", "pj1", "projects"),
      Edge("su2", "pj1", "projects"), Edge("pj1", "pg1", "programs") }

\* argument bundles of the per-type fields
QueryArgs ==
    { NoArgs,
      [state |-> <<"a">>], [state |-> <<"a", "b">>],
      [fasting |-> <<TRUE>>], [fasting |-> <<TRUE, FALSE>>],
      [consent_codes |-> <<"x">>], [consent_codes |-> <<"x", "y">>],
      [consent_codes |-> <<"%">>], [consent_codes |-> <<"_">>],
      [state |-> <<"a">>, consent_codes |-> <<"y">>],
      [not |-> << [state |-> "a"] >>],
      [not |-> << [state |-> "a"], [state |-> "b"] >>],
      [not |-> << [state |-> "b"], [fasting |-> TRUE] >>],
      [not |-> << [consent_codes |-> <<"x">>] >>],
      [quick_search |-> "AB12"], [quick_search |-> "b"], [quick_search |-> "1"],
      [first |-> 1], [first |-> 2], [first |-> 11], [first |-> 0], [first |-> -1],
      [with_links_any |-> <<"persons", "projects">>],
      [with_links_any |-> <<"persons", "projects">>, first |-> 2],
      [with_links_any |-> <<"persons", "projects">>, first |-> 0],
      [first |-> 2, offset |-> 1], [first |-> 1, offset |-> 1],
      [first |-> 2, offset |-> 1, order_by_asc |-> "submitter_id"] }

\* composite ids given to the project field
ProjectIdArgs ==
    { [project_id |-> <<"P-a">>], [project_id |-> <<"Pa">>],
      [project_id |-> <<"Pa", "P-a">>], [project_id |-> <<"P-b">>] }

InitQuery ==
    /\ nodes \in ShortTables \cup {LongTable(k) : k \in 3..MaxRows} \cup SubjectTables
    /\ edges = EdgesAmong(nodes, SubjectEdges)
    /\ read_access_permissions = [k \in {"P-a"} |-> {"*"}]
    /\ node_authz_entity = None
    /\ case_cache = FALSE
    /\ fields_left = 1
    /\ NewCounter
    /\ call = NoCall
    /\ status = "idle"
    /\ result = <<>>
    /\ count = <<>>

NextQuery ==
    \/ \E cls \in {"lab", AuthzLeaf}, args \in QueryArgs : resolver(cls, args)
    \/ \E args \in ProjectIdArgs : resolver(ProjectLabel, args)

SpecQuery == InitQuery /\ [][NextQuery]_vars

-----------------------------------------------------------------------------
(* Traversal filters over graphs with cases, with the case cache enabled    *)
(* and disabled.                                                            *)

MaxPathRows == 4   \* stored rows of a graph with cases

PathRows ==
    << Row("pj1", ProjectLabel, [code |-> "a", state |-> "open"]),
       Row("ca1", CaseLabel, [project_id |-> "P-a", submitter_id |-> "c1"]),
       Row("ca2", CaseLabel, [project_id |-> "P-a", submitter_id |-> "c2"]),
       Row("ca3", CaseLabel, [project_id |-> "P-b", submitter_id |-> "c1"]),
       Row("su1", AuthzLeaf, [project_id |-> "P-a", submitter_id |-> "u1"]),
       Row("lb1", "lab", [project_id |-> "P-a", submitter_id |-> "L1"]),
       Row("lb2", "lab", [project_id |-> "P-a", submitter_id |-> "L2"]),
       Row("lb3", "lab", [project_id |-> "P-a", submitter_id |-> "L3"]) >>

PathEdges ==
    { Edge("ca1", "pj1", "projects"), Edge("ca2", "pj1", "projects"),
      Edge("su1", "pj1", "projects"),
      Edge("lb1", "su1", "subjects"), Edge("lb2", "su1", "subjects"),
      Edge("lb1", "ca1", RelatedCases), Edge("lb2", "ca2", RelatedCases),
      Edge("lb3", "ca1", RelatedCases), Edge("lb2", "ca3", RelatedCases) }

\* the lists of traversal entries
PathSpecs ==
    LET toCase == [type |-> CaseLabel, submitter_id |-> "c1"]
        toLeaf == [type |-> AuthzLeaf]
        toLab == [type |-> "lab", submitter_id |-> "L2"]
        toProject == [type |-> ProjectLabel]
    IN  { <<>>, <<toCase>>, <<toLeaf>>, <<toCase, toLeaf>>,
          <<toLab>>, <<toProject>>, <<toLab, toProject>> }

PathArgs ==
    {[with_path_to |-> v] : v \in PathSpecs}
    \cup {[with_path_to_any |-> v] : v \in PathSpecs}
    \cup {[without_path_to |-> v] : v \in PathSpecs}

InitPath ==
    /\ nodes \in SubSeqsUpTo(PathRows, MaxPathRows)
    /\ edges = EdgesAmong(nodes, PathEdges)
    /\ read_access_permissions = [k \in {"P-a"} |-> {"*"}]
    /\ node_authz_entity = None
    /\ case_cache \in BOOLEAN
    /\ fields_left = 1
    /\ NewCounter
    /\ call = NoCall
    /\ status = "idle"
    /\ result = <<>>
    /\ count = <<>>

NextPath == \E cls \in {"lab", CaseLabel, AuthzLeaf}, args \in PathArgs : resolver(cls, args)

SpecPath == InitPath /\ [][NextPath]_vars

-----------------------------------------------------------------------------
(* The columns loaded for the requested fields.                             *)

\* entity.__table__.columns of an entity without __pg_properties__
TableColumns == {"node_id", "acl", "_sysan", "_props", "created"}

\* get_column_names
get_column_names(entity) ==
    IF entity \in ConcreteLabels THEN DOMAIN PgProperties(entity) ELSE TableColumns

\* fields_depend_on_columns.get(field, {})
DependsOn(fields_depend_on_columns, field) ==
    IF field \in DOMAIN fields_depend_on_columns THEN fields_depend_on_columns[field] ELSE {}

get_loaded_columns_without_update(entity, fields, fields_depend_on_columns) ==
    fields \cap get_column_names(entity)

\* get_loaded_columns; fields is set(get_fields(info)), and a None or empty
\* fields_depend_on_columns is <<>>
get_loaded_columns(entity, fields, fields_depend_on_columns) ==
    LET updated == IF DOMAIN fields_depend_on_columns # {}
                   THEN fields \cup UNION {DependsOn(fields_depend_on_columns, f) : f \in fields}
                   ELSE fields
    IN  updated \cap get_column_names(entity)

\* Node.fields_depend_on_columns, and other dependency maps
FieldsDependOnColumns ==
    { <<>>,
      [project_id |-> {"program", "code"}],
      [type |-> {"state", "node_id"}, submitter_id |-> {"submitter_id", "project_id"}] }

RequestedFields == {"id", "type", "project_id", "submitter_id", "state", "code", "node_id"}

\* one call of get_loaded_columns (by filtered_column_dict or apply_load_only)
LoadColumns(entity, fields, fields_depend_on_columns) ==
    /\ fields_left > 0
    /\ fields_left' = fields_left - 1
    /\ call' = [op |-> "get_loaded_columns", cls |-> entity,
                args |-> [fields |-> fields, fields_depend_on_columns |-> fields_depend_on_columns],
                self |-> NoSelf]
    /\ status' = "ok"
    /\ result' = get_loaded_columns(entity, fields, fields_depend_on_columns)
    /\ UNCHANGED <<nodes, edges, read_access_permissions, node_authz_entity, case_cache>>
    /\ UNCHANGED <<placeholders, queries, promises, statements, runs, count>>

InitColumns ==
    /\ nodes = <<>>
    /\ edges = {}
    /\ read_access_permissions = <<>>
    /\ node_authz_entity = None
    /\ case_cache = FALSE
    /\ fields_left = 1
    /\ NewCounter
    /\ call = NoCall
    /\ status = "idle"
    /\ result = <<>>
    /\ count = <<>>

NextColumns ==
    \E entity \in {"lab", ProjectLabel, NodeLabel}, fields \in SUBSET RequestedFields,
       deps \in FieldsDependOnColumns : LoadColumns(entity, fields, deps)

SpecColumns == InitColumns /\ [][NextColumns]_vars

-----------------------------------------------------------------------------
(* Count fields of one request, pooled by the NodeCounter and flushed by    *)
(* run.                                                                     *)

MaxFields == 2     \* count fields of a request document

CountTables ==
    LET pg == Row("pg1", ProgramLabel, [name |-> "P"])
        pj == Row("pj1", ProjectLabel, [code |-> "a", state |-> "open"])
        pe == Row("pe1", SubjectEntity, [project_id |-> "P-a", submitter_id |-> "s1"])
        s1 == Row("su1", AuthzLeaf, [project_id |-> "P-a", submitter_id |-> "u1"])
        s2 == Row("su2", AuthzLeaf, [project_id |-> "P-a", submitter_id |-> "u2"])
        s3 == Row("su3", AuthzLeaf, [project_id |-> "P-b", submitter_id |-> "u3"])
    IN  { <<pg, pj, pe, s1, s2>>, <<pg, pj, pe, s1, s2, s3>>, <<pj, s2>>, <<>> }

CountEdges ==
    { Edge("pj1", "pg1", "programs"), Edge("pe1", "pj1", "projects"),
      Edge("su1", "pe1", "persons"), Edge("su2", "pe1", "persons"),
      Edge("su1", "pj1", "projects"), Edge("su2", "pj1", "projects") }

CountPermissions ==
    { <<>>, [k \in {"P-a"} |-> {"*"}], [k \in {"P-a"} |-> {"u1"}],
      [k \in {"P-a", "P-b"} |-> {"*"}] }

\* argument bundles of the count fields
PooledCountArgs ==
    { NoArgs, [project_id |-> <<"P-a">>], [project_id |-> <<"P-b">>],
      [project_id |-> <<"P-a", "P-b">>], [project_id |-> <<"P-a">>, first |-> 1] }

InitCount ==
    /\ nodes \in CountTables
    /\ edges = EdgesAmong(nodes, CountEdges)
    /\ read_access_permissions \in CountPermissions
    /\ node_authz_entity \in {None, AuthzLeaf}
    /\ case_cache = FALSE
    /\ fields_left = MaxFields
    /\ NewCounter
    /\ call = NoCall
    /\ status = "idle"
    /\ result = <<>>
    /\ count = <<>>

NextCount ==
    \/ \E cls \in {AuthzLeaf, ProjectLabel, ProgramLabel}, args \in PooledCountArgs :
          count_resolver(cls, args)
    \/ run

SpecCount == InitCount /\ [][NextCount]_vars

-----------------------------------------------------------------------------
(* Properties of the authorization scope.                                   *)

\* the stored row with the given id
RowOf(id) == CHOOSE n \in NodeSet : n.node_id = id
ResultRows == {RowOf(result[i]) : i \in 1..Len(result)}

\* the type whose authorized query selected a returned row: the type of the
\* field, or for the interfaces the class of the row (category, datanode) or
\* the generic supertype
QueriedClass(n) ==
    IF call.op \notin {"resolve_node", "resolve_datanode"} THEN call.cls
    ELSE IF call.op = "resolve_datanode" THEN n.label
    ELSE IF "category" \in DOMAIN call.args THEN n.label
    ELSE NodeLabel

AuthorizedRows(cls) == SeqToSet(get_authorized_query(cls).rows)

\* the scoped types: the generic supertype and the types with a project_id
ScopedTypes == {NodeLabel} \cup {c \in ConcreteLabels : HasProjectId(c)}

\* C1: whatever the entry point and the argument bundle, every row a resolver
\* returns (or counts) is a row of the authorization-scoped base query of the
\* type that was queried.
ResultWithinAuthorizedQuery ==
    status = "ok" => \A n \in ResultRows : n \in AuthorizedRows(QueriedClass(n))

\* C1 witness: a per-type query with with_links_any returned rows while a stored
\* row of the type is outside the authorized query
ResultWithinAuthorizedQueryWitness ==
    /\ status = "ok" /\ call.op = "resolver"
    /\ "with_links_any" \in DOMAIN call.args
    /\ result # <<>>
    /\ \E n \in NodeSet : n.label = call.cls /\ n \notin AuthorizedRows(call.cls)

AbsentScopeReturnsNothing ==
    ( /\ status = "ok" /\ call.op = "resolver"
      /\ call.cls \in ScopedTypes
      /\ DOMAIN call.args = {"project_id"} )
    => ( (\A i \in 1..Len(call.args["project_id"]) :
              call.args["project_id"][i] \notin DOMAIN read_access_permissions)
         => result = <<>> )

\* C4: with an authz leaf configured, an entry of the permission map with an
\* empty set of subjects gives no access: the authorized query of a scoped type
\* returns no row of that scope key.
EmptyEntryFailsClosed ==
    ( /\ node_authz_entity # None
      /\ status = "ok" /\ call.op = "resolver" /\ call.args = NoArgs
      /\ call.cls \in ScopedTypes )
    => \A n \in ResultRows : \A K \in DOMAIN read_access_permissions :
           read_access_permissions[K] = {} => AsText(n, "project_id") # <<K>>

\* the walk over the first links of cls ends at the program type
ChainMissesLeaf(cls) ==
    /\ BelowSubjectLevel(cls) /\ cls # node_authz_entity
    /\ HierarchyWalk(cls).outcome = "done"
    /\ HierarchyWalk(cls).tmp # node_authz_entity

\* C5: for a scoped type whose chain of first links does not reach the authz
\* leaf, an entry of the permission map that names subjects (no wildcard)
\* gives no access: no row of that scope key is returned.
UnreachableLeafFailsClosed ==
    ( /\ status = "ok" /\ call.op = "resolver" /\ call.args = NoArgs
      /\ call.cls \in ScopedTypes
      /\ ChainMissesLeaf(call.cls) )
    => \A n \in ResultRows : \A K \in DOMAIN read_access_permissions :
           ( "*" \notin read_access_permissions[K] /\ read_access_permissions[K] # {} )
           => AsText(n, "project_id") # <<K>>

\* program name + "-" + project code of a project row
CompositeIds(r) ==
    {pg.props["name"] \o "-" \o r.props["code"] : pg \in LinkTargets(r, "programs")}

\* C6: the authorized query of the project type returns a project only if its
\* state is neither closed nor legacy and its composite id is a scope key the
\* caller may read.
ProjectsActiveAndReadable ==
    ( status = "ok" /\ call.op = "resolver" /\ call.cls = ProjectLabel
      /\ call.args = NoArgs )
    => \A n \in ResultRows :
           /\ AsText(n, "state") \notin {<<"closed">>, <<"legacy">>}
           /\ CompositeIds(n) \cap DOMAIN read_access_permissions # {}

-----------------------------------------------------------------------------
(* Properties of the filter, search and pagination arguments.               *)

\* a per-type query whose arguments are all among the given keys
QueryWith(keys) ==
    /\ status = "ok" /\ call.op = "resolver"
    /\ DOMAIN call.args # {} /\ DOMAIN call.args \subseteq keys

\* the rows of the queried type (all readable in these checks)
TypeRows == {n \in NodeSet : n.label = call.cls}

\* the stored list of a row holds every value / the stored scalar is a value
ListHoldsAll(n, key, val) ==
    key \in DOMAIN n.props /\ SeqToSet(val) \subseteq SeqToSet(n.props[key])
ScalarIsOneOf(n, key, val) ==
    key \in DOMAIN n.props /\ n.props[key] \in SeqToSet(val)

\* the row matches the property arguments of the call
MatchesProperties(n) ==
    \A key \in DOMAIN call.args :
        IF PgProperties(call.cls)[key] = "list"
        THEN ListHoldsAll(n, key, call.args[key])
        ELSE ScalarIsOneOf(n, key, call.args[key])

\* C7: with property arguments a row is returned only if its stored list holds
\* every value of a list-typed argument and its stored scalar is one of the
\* values of a scalar argument (booleans by value); with scalar arguments only,
\* every such row is returned.
PropertyFilterSemantics ==
    ( QueryWith(DOMAIN PgProperties(call.cls)) /\ Len(nodes) <= DEFAULT_LIMIT )
    => /\ \A n \in ResultRows : MatchesProperties(n)
       /\ (\A key \in DOMAIN call.args : PgProperties(call.cls)[key] # "list")
              => \A n \in TypeRows : MatchesProperties(n) => n \in ResultRows

\* the row matches an entry of the not argument whose key is a declared property
MatchesSomeNotEntry(n) ==
    \E i \in 1..Len(call.args["not"]) : \E k \in DOMAIN call.args["not"][i] :
        /\ k \in DOMAIN PgProperties(call.cls)
        /\ k \in DOMAIN n.props
        /\ n.props[k] = call.args["not"][i][k]

\* C8: with a not argument exactly the rows that match some entry are left
\* out: the entries are applied conjunctively, also when they name the same
\* key, and a row that matches no entry is returned.
NotFilterSemantics ==
    ( QueryWith({"not"}) /\ Len(nodes) <= DEFAULT_LIMIT )
    => ResultRows = {n \in TypeRows : ~MatchesSomeNotEntry(n)}

\* the id or the submitter_id of the row contains the phrase, ignoring case
MatchesQuickSearch(n, phrase) ==
    \/ StrContains(StrLower(n.node_id), StrLower(phrase))
    \/ /\ "submitter_id" \in DOMAIN n.props
       /\ StrContains(StrLower(n.props["submitter_id"]), StrLower(phrase))

\* C9: with quick_search and no order_by the rows whose id or submitter_id
\* contains the phrase are returned, a shorter submitter_id before a longer one.
QuickSearchOrderedByLength ==
    ( QueryWith({"quick_search"}) /\ Len(nodes) <= DEFAULT_LIMIT )
    => /\ ResultRows = {n \in TypeRows : MatchesQuickSearch(n, call.args["quick_search"])}
       /\ \A i \in 1..Len(result) : \A j \in (i + 1)..Len(result) :
              Len(RowOf(result[i]).props["submitter_id"])
                  <= Len(RowOf(result[j]).props["submitter_id"])

\* N: the rows of the filtered, unioned and ordered result of the call
FilteredCount ==
    Cardinality(SeqToSet(ApplyFilterArgs(get_authorized_query(call.cls), call.args).rows))

\* C10: with first unset at most DEFAULT_LIMIT rows are returned, with
\* first = k > 0 exactly min(k, N) rows, with first <= 0 all N rows.
PaginationCaps ==
    ( status = "ok" /\ call.op = "resolver"
      /\ DOMAIN call.args \subseteq {"first", "with_links_any"} )
    => IF "first" \notin DOMAIN call.args THEN Len(result) <= DEFAULT_LIMIT
       ELSE IF call.args["first"] > 0
       THEN Len(result) = IF call.args["first"] < FilteredCount
                          THEN call.args["first"] ELSE FilteredCount
       ELSE Len(result) = FilteredCount

-----------------------------------------------------------------------------
(* Properties of offset, traversal and the batched counts.                  *)

\* the filtered and ordered result of the call before first and offset
OrderedResult ==
    LET filtered == ApplyFilterArgs(get_authorized_query(call.cls), call.args)
        ordered == ApplyOrderArgs(filtered, call.args)
    IN  NodeIds(Unique(SortRows(ordered.rows, ordered.order)))

Take(s, k) == IF k < Len(s) THEN SubSeq(s, 1, k) ELSE s
Drop(s, m) == SubSeq(s, m + 1, Len(s))

\* C11: with first = k > 0 and offset = m > 0 on a query of one type the
\* returned rows are the first min(k, N) rows of the ordered result with the
\* first m of them skipped (limit first, offset second).
LimitThenOffset ==
    ( /\ status = "ok" /\ call.op = "resolver"
      /\ {"first", "offset"} \subseteq DOMAIN call.args
      /\ DOMAIN call.args \subseteq {"first", "offset", "order_by_asc"}
      /\ call.args["first"] > 0 /\ call.args["offset"] > 0 )
    => result = Drop(Take(OrderedResult, call.args["first"]), call.args["offset"])

\* the rows the per-type query of the called type returns for one argument
RowsFor(key, value) == SeqToSet(QueryAll(RootQuery(call.cls, key :> value)))
AllRows == SeqToSet(QueryAll(RootQuery(call.cls, [first |-> 0])))
PathCall(key) == status = "ok" /\ call.op = "resolver" /\ DOMAIN call.args = {key}

\* C12: the rows with_path_to(X) keeps and the rows without_path_to(X) keeps
\* are disjoint and together they are the rows of the base query.
PathPartition ==
    /\ PathCall("with_path_to") =>
          /\ ResultRows \cap RowsFor("without_path_to", call.args["with_path_to"]) = {}
          /\ ResultRows \cup RowsFor("without_path_to", call.args["with_path_to"]) = AllRows
    /\ PathCall("without_path_to") =>
          /\ ResultRows \cap RowsFor("with_path_to", call.args["without_path_to"]) = {}
          /\ ResultRows \cup RowsFor("with_path_to", call.args["without_path_to"]) = AllRows

\* both parts of the partition hold a row
PathPartitionWitness ==
    /\ PathCall("without_path_to")
    /\ ResultRows # {}
    /\ RowsFor("with_path_to", call.args["without_path_to"]) # {}

\* C13: with_path_to_any of two entries returns every row either entry alone
\* returns, and with_path_to of two entries returns only rows each entry
\* alone returns, with the case cache disabled and enabled.
PathMonotone ==
    /\ ( PathCall("with_path_to_any") /\ Len(call.args["with_path_to_any"]) = 2 ) =>
          \A i \in 1..2 :
              RowsFor("with_path_to_any", <<call.args["with_path_to_any"][i]>>) \subseteq ResultRows
    /\ ( PathCall("with_path_to") /\ Len(call.args["with_path_to"]) = 2 ) =>
          \A i \in 1..2 :
              ResultRows \subseteq RowsFor("with_path_to", <<call.args["with_path_to"][i]>>)

\* a union over the case shortcut that holds more rows than one of its entries
PathMonotoneWitness ==
    /\ case_cache
    /\ PathCall("with_path_to_any") /\ Len(call.args["with_path_to_any"]) = 2
    /\ \E i \in 1..2 : /\ RowsFor("with_path_to_any", <<call.args["with_path_to_any"][i]>>) # {}
                        /\ RowsFor("with_path_to_any", <<call.args["with_path_to_any"][i]>>) # ResultRows

\* a step of NodeCounter.run, a step of the count resolver
RunStep == runs' = runs + 1
CountStep == fields_left' = fields_left - 1 /\ call'.op = "count_resolver"
PoolVars == <<placeholders, queries, promises, statements>>

\* C14: a run over a pool of N >= 1 requests executes exactly one statement
\* and fulfils every pooled promise with the column of the result row named
\* by its own key; a run over an empty pool executes nothing and changes
\* nothing.
RunBatchesOneStatement ==
    [][ RunStep =>
          IF queries = <<>> THEN UNCHANGED PoolVars
          ELSE /\ Len(statements') = Len(statements) + 1
               /\ statements'[Len(statements')].columns = [i \in 1..Len(queries) |-> queries[i].key]
               /\ \A i \in 1..Len(queries) :
                      promises'[queries[i].promise].value =
                          <<statements'[Len(statements')].row[queries[i].key]>> ]_vars

\* one run fulfilled two pooled counts with different values
RunBatchesOneStatementWitness ==
    /\ runs = 1 /\ Len(statements) = 1 /\ Len(queries) = 2
    /\ promises[1].value # <<>> /\ promises[2].value # <<>>
    /\ promises[1].value # promises[2].value

\* the scope key a pooled query counts
PooledScope(qy) == CHOOSE k \in DOMAIN placeholders : placeholders[k] = qy.param

\* C15: the value a pooled promise is fulfilled with is the count of the
\* authorized query of its type filtered to its scope key.
BatchedCountIsAuthorizedCount ==
    \A i \in 1..Len(queries) :
        promises[queries[i].promise].value # <<>> =>
            promises[queries[i].promise].value =
                clean_count(CountQuery(queries[i].table,
                                       [project_id |-> <<PooledScope(queries[i])>>]))

\* C16: every pooled promise is fulfilled at most once and its count is
\* issued in at most one statement: a later run leaves it alone.
FulfilledExactlyOnce ==
    /\ \A i \in 1..Len(promises) : promises[i].fulfilled <= 1
    /\ \A i \in 1..Len(queries) :
          Cardinality({k \in 1..Len(statements) :
                          queries[i].key \in SeqToSet(statements[k].columns)}) <= 1

\* the type carries project_id, is not project, and the only argument is
\* project_id with one scope key
EligibleCount(cls, args) ==
    /\ HasProjectId(cls) /\ cls # ProjectLabel
    /\ DOMAIN args = {"project_id"}
    /\ IF DOMAIN args = {"project_id"} THEN Len(args["project_id"]) = 1 ELSE FALSE

\* C17: the count resolver pools a request only when it is eligible; a
\* request that is not eligible leaves the pool unchanged and is answered at
\* once with the count of the ordinary authorized query.
PoolsOnlyEligible ==
    [][ CountStep =>
          /\ queries' # queries => EligibleCount(call'.cls, call'.args)
          /\ ~EligibleCount(call'.cls, call'.args) =>
                /\ UNCHANGED PoolVars
                /\ status' = "ok" => count' = clean_count(CountQuery(call'.cls, call'.args)) ]_vars

\* a request that is not eligible answered at once next to a pooled one
PoolsOnlyEligibleWitness ==
    /\ call.op = "count_resolver" /\ ~EligibleCount(call.cls, call.args)
    /\ status = "ok" /\ count # <<>> /\ count[1] > 0
    /\ Len(queries) = 1

\* C18: an eligible request whose scope key the caller cannot read is
\* answered 0 at once, and the pool and the placeholder map stay unchanged.
UnreadableScopeCountsZero ==
    [][ ( /\ CountStep
          /\ EligibleCount(call'.cls, call'.args)
          /\ IF EligibleCount(call'.cls, call'.args)
             THEN call'.args["project_id"][1] \notin DOMAIN read_access_permissions
             ELSE FALSE )
        => /\ status' = "ok" /\ count' = <<0>>
           /\ UNCHANGED PoolVars ]_vars

\* 0 answered for an unreadable scope that holds rows, next to a pooled request
UnreadableScopeCountsZeroWitness ==
    /\ call.op = "count_resolver" /\ EligibleCount(call.cls, call.args)
    /\ call.args = [project_id |-> <<"P-b">>]
    /\ "P-b" \notin DOMAIN read_access_permissions
    /\ \E n \in NodeSet : n.label = call.cls /\ AsText(n, "project_id") = <<"P-b">>
    /\ count = <<0>> /\ Len(queries) = 1

\* the requested fields, and the columns the requested fields depend on
Requested == call.args["fields"]
Dependencies ==
    UNION {call.args["fields_depend_on_columns"][f] :
              f \in Requested \cap DOMAIN call.args["fields_depend_on_columns"]}

\* C19: get_loaded_columns returns only declared names, only names that are
\* requested or a dependency of a requested field, and every declared name
\* that is one; requested names that are not declared are dropped.
LoadedColumnsExact ==
    call.op = "get_loaded_columns" =>
        /\ status = "ok"
        /\ result \subseteq get_column_names(call.cls)
        /\ result \subseteq Requested \cup Dependencies
        /\ \A c \in get_column_names(call.cls) : c \in Requested \cup Dependencies => c \in result

\* an undeclared requested field dropped and an unrequested dependency loaded
LoadedColumnsExactWitness ==
    /\ call.op = "get_loaded_columns"
    /\ \E f \in Requested : f \notin get_column_names(call.cls)
    /\ \E c \in result : c \notin Requested

\* the call filters projects by ids of which one has no hyphen
MalformedProjectId ==
    /\ call.op = "resolver" /\ call.cls = ProjectLabel
    /\ "project_id" \in DOMAIN call.args
    /\ \E i \in 1..Len(call.args["project_id"]) :
          Len(SplitFirstHyphen(call.args["project_id"][i])) # 2

\* C20: filtering projects by a composite id that cannot be split into
\* program name and project code fails the request; the id is not skipped
\* and no empty result is returned for it.
MalformedProjectIdIsError ==
    MalformedProjectId => status = "error"

-----------------------------------------------------------------------------
(* The node and datanode interfaces over graphs with several rows per type. *)

MaxInterfaceRows == 5   \* stored rows of a graph queried through an interface

InterfaceRows ==
    << Row("pj1", ProjectLabel, [code |-> "a", state |-> "open"]),
       Row("su1", AuthzLeaf, [project_id |-> "P-a", submitter_id |-> "u1"]),
       Row("su2", AuthzLeaf, [project_id |-> "P-a", submitter_id |-> "u2"]),
       Row("ca1", CaseLabel, [project_id |-> "P-a", submitter_id |-> "c1"]),
       Row("ca2", CaseLabel, [project_id |-> "P-b", submitter_id |-> "c2"]),
       Row("ca3", CaseLabel, [project_id |-> "P-a", submitter_id |-> "c3"]),
       Row("cm1", "core_metadata_collection", [project_id |-> "P-a", submitter_id |-> "m1"]),
       Row("cm2", "core_metadata_collection", [project_id |-> "P-a", submitter_id |-> "m2"]),
       Row("lb1", "lab", [project_id |-> "P-a", submitter_id |-> "L1"]) >>

\* argument bundles of a category query and of the datanode interface
PolymorphicArgs ==
    { [first |-> 1], [first |-> 2], [first |-> DEFAULT_LIMIT],
      [first |-> 1, offset |-> 1], [first |-> 2, offset |-> 1],
      [first |-> 1, project_id |-> "P-a"],
      [first |-> 1, of_type |-> <<CaseLabel, "core_metadata_collection">>],
      [first |-> 0, offset |-> 1] }

\* argument bundles of the of_type compatibility path
OfTypeArgs ==
    { [first |-> DEFAULT_LIMIT, of_type |-> <<CaseLabel, AuthzLeaf>>],
      [first |-> 1, of_type |-> <<CaseLabel, AuthzLeaf>>],
      [first |-> 2, of_type |-> <<CaseLabel>>],
      [first |-> DEFAULT_LIMIT, offset |-> 1, of_type |-> <<CaseLabel, AuthzLeaf>>],
      [first |-> 2, offset |-> 1, of_type |-> <<AuthzLeaf>>],
      [first |-> 0, of_type |-> <<CaseLabel, "lab">>] }

InitInterface ==
    /\ nodes \in SubSeqsUpTo(InterfaceRows, MaxInterfaceRows)
    /\ edges = {}
    /\ read_access_permissions \in {[k \in {"P-a"} |-> {"*"}], [k \in {"P-a", "P-b"} |-> {"*"}]}
    /\ node_authz_entity = None
    /\ case_cache = FALSE
    /\ fields_left = 1
    /\ NewCounter
    /\ call = NoCall
    /\ status = "idle"
    /\ result = <<>>
    /\ count = <<>>

NextInterface ==
    \/ \E args \in PolymorphicArgs, category \in {"administrative", "clinical"} :
          resolve_node(args @@ [category |-> category])
    \/ \E args \in PolymorphicArgs : resolve_datanode(args)
    \/ \E args \in OfTypeArgs : resolve_node(args)

SpecInterface == InitInterface /\ [][NextInterface]_vars

-----------------------------------------------------------------------------
(* The hierarchy walk of authorization_filter over other schema graphs: the *)
(* types below the subject level link to any type, or to none.              *)

RECURSIVE WalkOver(_, _, _, _)
\* the while loop over a schema given as a map from a type to its links:
\* list(...)[0] raises on a type without links, and the loop does not end on
\* a chain that comes back to a type it left
WalkOver(pg_links, tmp, path_tmp, fuel) ==
    IF tmp = AuthzLeaf \/ tmp = ProgramLabel
    THEN [outcome |-> "done", tmp |-> tmp, path |-> path_tmp]
    ELSE IF Len(pg_links[tmp]) = 0
    THEN [outcome |-> "raise", tmp |-> tmp, path |-> path_tmp]
    ELSE IF fuel = 0
    THEN [outcome |-> "diverge", tmp |-> tmp, path |-> path_tmp]
    ELSE WalkOver(pg_links, pg_links[tmp][1].dst_type,
                  Append(path_tmp, pg_links[tmp][1].name), fuel - 1)

\* nodeType = list(cls._pg_links.keys())[0], then the loop
HierarchyWalkOver(pg_links, cls) ==
    IF Len(pg_links[cls]) = 0
    THEN [outcome |-> "raise", tmp |-> cls, path |-> <<>>]
    ELSE WalkOver(pg_links, pg_links[cls][1].dst_type, <<pg_links[cls][1].name>>,
                  Cardinality(DOMAIN pg_links))

\* the first block of authorization_filter for a type below the subject
\* level that is not the authz leaf: the request ends with the path joined,
\* with the exception raised, or not at all
walk_hierarchy(pg_links, cls) ==
    /\ fields_left > 0
    /\ fields_left' = fields_left - 1
    /\ call' = [op |-> "authorization_filter", cls |-> cls, args |-> pg_links, self |-> NoSelf]
    /\ status' = HierarchyWalkOver(pg_links, cls).outcome
    /\ result' = HierarchyWalkOver(pg_links, cls).path
    /\ count' = <<>>
    /\ UNCHANGED <<nodes, edges, read_access_permissions, node_authz_entity, case_cache>>
    /\ UNCHANGED <<placeholders, queries, promises, statements, runs>>

MaxWalkTypes == 3   \* types below the subject level in a schema graph

\* the types whose links vary, and the types of the fixed upper levels
LowerTypes == SubSeq(<<"lab", "sample", "aliquot", "slide">>, 1, MaxWalkTypes)
UpperLinks ==
    [c \in {ProgramLabel, ProjectLabel, SubjectEntity, AuthzLeaf} |-> PgLinks(c)]

\* the links a lower type may have: none, or one link to another type
LinkChoices ==
    {<<>>} \cup {<< [name |-> t \o "s", dst_type |-> t, backref |-> "children"] >> :
                     t \in SeqToSet(LowerTypes) \cup {AuthzLeaf, ProjectLabel, SubjectEntity}}

SchemaGraphs == {lower @@ UpperLinks : lower \in [SeqToSet(LowerTypes) -> LinkChoices]}

InitWalk ==
    /\ nodes = <<>>
    /\ edges = {}
    /\ read_access_permissions = [k \in {"P-a"} |-> {"*"}]
    /\ node_authz_entity = AuthzLeaf
    /\ case_cache = FALSE
    /\ fields_left = 1
    /\ NewCounter
    /\ call = NoCall
    /\ status = "idle"
    /\ result = <<>>
    /\ count = <<>>

NextWalk ==
    \E pg_links \in SchemaGraphs, cls \in SeqToSet(LowerTypes) : walk_hierarchy(pg_links, cls)

SpecWalk == InitWalk /\ [][NextWalk]_vars

-----------------------------------------------------------------------------
(* The arbitrary-link field _links of a row with many neighbours.           *)

\* get_authorized_query(psqlgraph.Node).filter(Node.node_id == edge_sq.c.src_id)
\* (or dst_id): one row per edge between the row and self
NeighbourQuery(auth, self, incoming) ==
    LET Count(n) == Cardinality({e \in edges :
                        IF incoming THEN e.src = n.node_id /\ e.dst = self.node_id
                        ELSE e.src = self.node_id /\ e.dst = n.node_id})
    IN  IF auth.raised THEN auth ELSE [auth EXCEPT !.rows = SeqExpand(auth.rows, Count)]

\* apply_query_args(q, args, info).limit(None)
WithoutLimit(q) == IF q.raised THEN q ELSE [q EXCEPT !.limit = <<>>]

\* q1.union(q2); the result of apply_arg_limit(q, args, info) is not assigned,
\* so the union carries no LIMIT
LinksUnion(q1, q2) ==
    IF q1.raised \/ q2.raised THEN RaisedQuery(NodeLabel)
    ELSE Query(NodeLabel, SeqUnion(Fetch(q1), Fetch(q2)))

\* the query of resolve_links: neighbours over incoming edges, then outgoing
LinksQuery(auth, self, args) ==
    LinksUnion(WithoutLimit(apply_query_args(NeighbourQuery(auth, self, TRUE), args)),
               WithoutLimit(apply_query_args(NeighbourQuery(auth, self, FALSE), args)))

resolve_links(self, args) ==
    ReturnAll([op |-> "resolve_links", cls |-> NodeLabel, args |-> args, self |-> self.node_id],
              LinksQuery(get_authorized_query(NodeLabel), self, WrapScalarArgs(args)))

MaxNeighbours == 12   \* rows linked to one row

\* a subject with its person and k labs
LinkedRows(k) ==
    << Row("su1", AuthzLeaf, [project_id |-> "P-a", submitter_id |-> "u1"]),
       Row("pe1", SubjectEntity, [project_id |-> "P-a", submitter_id |-> "s1"]) >>
    \o [i \in 1..k |-> Row("lb" \o ToString(i), "lab",
                            [project_id |-> "P-a", submitter_id |-> "L" \o ToString(i)])]

LinkedEdges(k) ==
    {Edge("su1", "pe1", "persons")} \cup {Edge("lb" \o ToString(i), "su1", "subjects") : i \in 1..k}

\* argument bundles of the _links field; first is DEFAULT_LIMIT when not given
LinksArgs ==
    { [first |-> DEFAULT_LIMIT], [first |-> 1], [first |-> 2],
      [first |-> 1, offset |-> 1], [first |-> 0] }

InitLinks ==
    /\ \E k \in 0..MaxNeighbours : nodes = LinkedRows(k) /\ edges = LinkedEdges(k)
    /\ read_access_permissions = [k \in {"P-a"} |-> {"*"}]
    /\ node_authz_entity = None
    /\ case_cache = FALSE
    /\ fields_left = 1
    /\ NewCounter
    /\ call = NoCall
    /\ status = "idle"
    /\ result = <<>>
    /\ count = <<>>

NextLinks == \E self \in NodeSet, args \in LinksArgs : resolve_links(self, args)

SpecLinks == InitLinks /\ [][NextLinks]_vars

-----------------------------------------------------------------------------
(* Properties of the interfaces, of the scope predicate and of traversal.   *)

\* a category query or a datanode query
PolymorphicCall ==
    \/ call.op = "resolve_datanode"
    \/ call.op = "resolve_node" /\ "category" \in DOMAIN call.args

\* the concrete types a polymorphic call queries
PolymorphicTypes ==
    LET Named(c) == "of_type" \in DOMAIN call.args => c \in SeqToSet(call.args["of_type"])
        Wanted(c) == IF call.op = "resolve_datanode" THEN c = "core_metadata_collection"
                     ELSE Category(c) = call.args["category"]
    IN  {c \in ConcreteLabels : Named(c) /\ Wanted(c)}

CallOffset == IF "offset" \in DOMAIN call.args THEN call.args["offset"] ELSE 0

\* the rows of one type the caller may read that match the project_id argument
TypeMatches(cls) ==
    LET Keep(n) == "project_id" \in DOMAIN call.args
                       => AsText(n, "project_id") = <<call.args["project_id"]>>
    IN  SeqFilter(get_authorized_query(cls).rows, Keep)

\* the part of the result that are rows of one type
ResultOfType(cls) ==
    LET Keep(id) == RowOf(id).label = cls IN SeqFilter(result, Keep)

\* C21: a polymorphic query with first = k > 0 and offset = m returns, for
\* every type it queries, that type's matching rows with the first m skipped
\* and at most k kept, and nothing else: first and offset apply per type and
\* never to the concatenated result.
PerTypePagination ==
    (status = "ok" /\ PolymorphicCall /\ call.args["first"] > 0) =>
        \A cls \in ConcreteLabels :
            ResultOfType(cls) =
                IF cls \in PolymorphicTypes
                THEN NodeIds(Unique(Take(Drop(TypeMatches(cls), CallOffset), call.args["first"])))
                ELSE <<>>

\* C21 witness: a category query with first = 1 and offset = 1 returned two
\* rows, one of each of two types
PerTypePaginationWitness ==
    /\ status = "ok" /\ PolymorphicCall
    /\ call.args["first"] = 1 /\ CallOffset = 1
    /\ Len(result) = 2
    /\ Cardinality({RowOf(result[i]).label : i \in 1..Len(result)}) = 2

\* the subject entities a row is hierarchically linked to: the rows of the
\* authz leaf type and of the subject type among the row itself, the rows its
\* links lead up to, and the rows linked to it from below
RECURSIVE Ancestors(_, _)
Ancestors(S, fuel) ==
    IF fuel = 0 THEN S
    ELSE Ancestors(S \cup {m \in NodeSet : \E n \in S : \E e \in edges :
                                 e.src = n.node_id /\ e.dst = m.node_id}, fuel - 1)

LinkedSubjects(n) ==
    {m \in Ancestors({n}, Cardinality(ConcreteLabels))
           \cup {c \in NodeSet : \E e \in edges : e.src = c.node_id /\ e.dst = n.node_id} :
        m.label \in {node_authz_entity, SubjectEntity}}

\* the scope predicate of one entry of the permission map
VisibleUnder(n, K, allowed) ==
    /\ AsText(n, "project_id") = <<K>>
    /\ \/ "*" \in allowed
       \/ node_authz_entity = None
       \/ TextIn(AsText(n, "submitter_id"), allowed)
       \/ \E m \in LinkedSubjects(n) : TextIn(AsText(m, "submitter_id"), allowed)

\* C22: for a scoped type and a non-empty permission map a row is returned
\* exactly when some entry (K, allowed) of the map has the row's project_id
\* equal to K and allowed is the wildcard, or no authz leaf is configured, or
\* the submitter_id of the row or of a subject entity it is linked to is in
\* allowed.
VisibleIffSomeEntryGrants ==
    ( /\ status = "ok" /\ call.op = "resolver" /\ call.args = NoArgs
      /\ HasProjectId(call.cls)
      /\ DOMAIN read_access_permissions # {} )
    => ResultRows =
         {n \in NodeSet : /\ n.label = call.cls
                          /\ \E K \in DOMAIN read_access_permissions :
                                VisibleUnder(n, K, read_access_permissions[K])}

\* the rows of the base query of the called type
BaseResult == NodeIds(Unique(get_authorized_query(call.cls).rows))

\* C23: with_path_to_any given an empty list of target specs returns no row,
\* never the rows of the base query; with_path_to given an empty list returns
\* the rows of the base query unchanged.
EmptySpecList ==
    /\ ( call.op = "resolver" /\ call.args = [with_path_to_any |-> <<>>] )
          => ( status = "ok" /\ result = <<>> )
    /\ ( call.op = "resolver" /\ call.args = [with_path_to |-> <<>>] )
          => ( status = "ok" /\ result = BaseResult )

\* C23 witness: the base query holds rows, an empty with_path_to_any returned
\* none of them
EmptySpecListWitness ==
    /\ call.op = "resolver" /\ call.args = [with_path_to_any |-> <<>>]
    /\ BaseResult # <<>>
    /\ result = <<>>

\* an entry the case cache resolves over a shortcut link
ViaCase(entry) == entry["type"] = CaseLabel \/ call.cls = CaseLabel

\* row n has a shortcut edge to (or, on a case, from) a row the entry keeps
ShortcutReaches(n, entry) ==
    IF entry["type"] = CaseLabel
    THEN /\ HasRelatedCases(call.cls)
         /\ \E m \in NodeSet : /\ m.label = CaseLabel
                                /\ Edge(n.node_id, m.node_id, RelatedCases) \in edges
                                /\ EndOfTraversalKeeps(m, entry)
    ELSE /\ HasRelatedFromCase(entry["type"])
         /\ \E m \in NodeSet : /\ m.label = entry["type"]
                                /\ Edge(m.node_id, n.node_id, RelatedCases) \in edges
                                /\ EndOfTraversalKeeps(m, entry)

PathListOf(key) == IF key \in DOMAIN call.args THEN call.args[key] ELSE <<>>

\* C24: with the case cache enabled, a traversal entry that targets case, or
\* any entry of a query of the case type, keeps exactly the rows with a
\* shortcut edge to a kept row and is never resolved by the path search; on a
\* type without the shortcut attribute the entry keeps no row and nothing is
\* raised.
CaseCacheUsesShortcutOnly ==
    ( case_cache /\ call.op = "resolver" ) =>
        \A key \in {"with_path_to", "with_path_to_any"} :
            ( /\ DOMAIN call.args = {key}
              /\ \A i \in 1..Len(call.args[key]) : ViaCase(call.args[key][i]) )
            => /\ status = "ok"
               /\ Len(call.args[key]) = 1 =>
                     ResultRows = {n \in SeqToSet(get_authorized_query(call.cls).rows) :
                                       ShortcutReaches(n, call.args[key][1])}

\* C24 witness: the case cache is enabled, a readable case has a project and
\* the case type has no shortcut to project: with_path_to project on case
\* returned nothing
CaseCacheUsesShortcutOnlyWitness ==
    /\ case_cache /\ status = "ok" /\ call.op = "resolver" /\ call.cls = CaseLabel
    /\ call.args = [with_path_to |-> << [type |-> ProjectLabel] >>]
    /\ \E n \in SeqToSet(get_authorized_query(CaseLabel).rows) : LinkTargets(n, "projects") # {}
    /\ result = <<>>

\* the request of the step was pooled
PooledStep == Len(queries') = Len(queries) + 1

\* C25: over any sequence of add_count calls on one counter the map from
\* scope key to placeholder name only grows and is injective, the query keys
\* are pairwise distinct, a pooled query carries the placeholder of the scope
\* key of its request, and the statement of a flush binds the placeholder of
\* every pooled query to the scope key that holds it.
PlaceholdersStable ==
    [][ /\ \A k \in DOMAIN placeholders :
              k \in DOMAIN placeholders' /\ placeholders'[k] = placeholders[k]
        /\ \A k1, k2 \in DOMAIN placeholders' :
              placeholders'[k1] = placeholders'[k2] => k1 = k2
        /\ \A i, j \in 1..Len(queries') : queries'[i].key = queries'[j].key => i = j
        /\ PooledStep =>
              /\ SubSeq(queries', 1, Len(queries)) = queries
              /\ call'.args["project_id"][1] \in DOMAIN placeholders'
              /\ queries'[Len(queries')].param = placeholders'[call'.args["project_id"][1]]
        /\ ( RunStep /\ queries # <<>> ) =>
              \A i \in 1..Len(queries) :
                  /\ queries[i].param \in DOMAIN statements'[Len(statements')].params
                  /\ statements'[Len(statements')].params[queries[i].param]
                         \in DOMAIN placeholders
                  /\ placeholders[statements'[Len(statements')].params[queries[i].param]]
                         = queries[i].param
      ]_vars

\* C25 witness: two requests with different scope keys were pooled under
\* different placeholders and flushed
PlaceholdersStableWitness ==
    /\ Len(queries) = 2 /\ queries[1].param # queries[2].param
    /\ Cardinality(DOMAIN placeholders) = 2
    /\ statements # <<>>

\* C26: over every schema graph the hierarchy walk of a type below the
\* subject level ends without raising, at the authz leaf type or at the
\* program type, also when a type on the chain has no outgoing link or the
\* chain of first links comes back to a type it left.
WalkTerminatesWithoutRaising ==
    call.op = "authorization_filter" => status = "done"

\* the rows of the named types that pass the scope of their type and of the
\* supertype, in the order the supertype query yields them
CombinedMatches ==
    LET Keep(n) == /\ n.label \in SeqToSet(call.args["of_type"])
                   /\ n \in SeqToSet(get_authorized_query(n.label).rows)
    IN  NodeIds(SeqFilter(Unique(get_authorized_query(NodeLabel).rows), Keep))

\* C27: a query of the generic supertype with an of_type list, first = k > 0
\* and offset = m returns the combined matching rows of the named types with
\* exactly the first m skipped and at most k kept: first and offset are applied
\* once, to the re-query by id set.
OfTypePagedOnce ==
    ( /\ status = "ok" /\ call.op = "resolve_node"
      /\ "of_type" \in DOMAIN call.args /\ "category" \notin DOMAIN call.args
      /\ call.args["first"] > 0 )
    => result = Take(Drop(CombinedMatches, CallOffset), call.args["first"])

\* the rows at the end of the traversal of one entry from row n
TraversalEnds(n, entry) ==
    IF case_cache /\ entry["type"] = CaseLabel
    THEN {m \in NodeSet : Edge(n.node_id, m.node_id, RelatedCases) \in edges}
    ELSE IF case_cache /\ call.cls = CaseLabel
    THEN {m \in NodeSet : Edge(m.node_id, n.node_id, RelatedCases) \in edges}
    ELSE PathEnds({n}, FindPath(call.cls, entry["type"], {call.cls}, 1))

\* row n reaches a destination row the caller may read and the entry keeps
ReachesVisible(n, entry) ==
    \E m \in TraversalEnds(n, entry) \cap AuthorizedRows(entry["type"]) :
        m.label = entry["type"] /\ EndOfTraversalKeeps(m, entry)

\* C28: the traversal filters depend only on destination rows the caller may
\* read: with_path_to and with_path_to_any of one entry keep exactly the rows
\* of the base query that reach a readable destination row the entry keeps,
\* and without_path_to keeps exactly the others, so that a destination row
\* outside the caller's scope never changes the rows returned.
TraversalSeesOnlyReadableRows ==
    ( status = "ok" /\ call.op = "resolver" ) =>
        \A key \in {"with_path_to", "with_path_to_any", "without_path_to"} :
            ( DOMAIN call.args = {key} /\ Len(PathListOf(key)) = 1 ) =>
                ResultRows =
                    {n \in AuthorizedRows(call.cls) :
                        ReachesVisible(n, call.args[key][1]) <=> key # "without_path_to"}

\* C29: the _links field with first = k > 0 returns at most k neighbour rows
\* over incoming and outgoing edges together, and at most DEFAULT_LIMIT rows
\* when first is not given.
LinksCappedByFirst ==
    ( status = "ok" /\ call.op = "resolve_links" /\ call.args["first"] > 0 )
    => Len(result) <= call.args["first"]

====
